---- MODULE Spec2Model ----
(***************************************************************************)
(* QRare: a binary file is compressed, cut into chunks, every chunk is     *)
(* serialised with its metadata into one QR image, and a set of images is  *)
(* decoded back (strict mode) or inspected (analysis mode).                *)
(*                                                                         *)
(* Bytes are drawn from a two-letter alphabet.  zlib is modelled by its    *)
(* stored format: a header byte, the data, a trailing checksum.  sha256 is *)
(* modelled by an injective numbering of byte strings.  The JSON text of a *)
(* chunk is the record of its fields; a QR image is what scanning it       *)
(* gives: a scan status, a parse status and that record.                   *)
(***************************************************************************)
EXTENDS Integers, Sequences, FiniteSets, TLC

\* ---------------------------------------------------------------- bounds
MaxFileLen == 1
MaxChunkSize == 3
MaxEdits == 2
MaxErrorCorrection == 4

\* ------------------------------------------------------------- universes
Byte == 0..1
FileName == "a.bin"
ForeignName == "b.bin"
NoIndex == -1

Min(a, b) == IF a < b THEN a ELSE b

SeqsUpTo(S, n) == UNION {[1..k -> S] : k \in 0..n}

RECURSIVE SumSeq(_)
SumSeq(s) == IF s = <<>> THEN 0 ELSE s[1] + SumSeq(Tail(s))

RECURSIVE Concat(_)
Concat(ss) == IF ss = <<>> THEN <<>> ELSE ss[1] \o Concat(Tail(ss))

RemoveAt(s, i) == SubSeq(s, 1, i - 1) \o SubSeq(s, i + 1, Len(s))

\* ------------------------------------------------- file_ops.py: hashing
\* calculate_file_hash: sha256 of the content, modelled as the bijective
\* base-2 number of the byte string (injective, as sha256 is in practice).
RECURSIVE calculate_file_hash(_)
calculate_file_hash(content) ==
    IF content = <<>> THEN 0
    ELSE (content[1] + 1) + 2 * calculate_file_hash(Tail(content))

\* --------------------------------------------- file_ops.py: compression
ZHeader == 1
AdlerMod == 2

\* the checksum zlib appends to the stream (Adler-32 starts at 1)
Adler(data) == (1 + SumSeq(data)) % AdlerMod

\* FileManager.compress_data: zlib.compress; never empty, also for b"".
compress_data(data) == <<ZHeader>> \o data \o <<Adler(data)>>

\* FileManager.decompress_data: zlib.decompress; zlib.error on a bad header,
\* a truncated stream or a checksum mismatch.
decompress_data(compressed) ==
    LET n == Len(compressed)
        body == SubSeq(compressed, 2, n - 1)
    IN  IF n >= 2 /\ compressed[1] = ZHeader /\ compressed[n] = Adler(body)
        THEN [ok |-> TRUE, data |-> body]
        ELSE [ok |-> FALSE, data |-> <<>>]

\* ------------------------------------------------------------- base64
B64Base == 65
B64Pad == 61

\* base64.b64encode: one text symbol per byte value, '=' padding up to a
\* multiple of three input bytes.
b64encode(bytes) ==
    [i \in 1..Len(bytes) |-> bytes[i] + B64Base]
        \o [i \in 1..((3 - (Len(bytes) % 3)) % 3) |-> B64Pad]

\* base64.b64decode: binascii.Error on incorrect padding.
b64decode(text) ==
    LET body == SelectSeq(text, LAMBDA c : c # B64Pad)
        npad == Len(text) - Len(body)
        bytes == [i \in 1..Len(body) |-> body[i] - B64Base]
    IN  IF /\ npad = (3 - (Len(body) % 3)) % 3
           /\ \A i \in 1..Len(text) : (text[i] = B64Pad) => (i > Len(body))
           /\ \A i \in 1..Len(body) : bytes[i] \in Byte
        THEN [ok |-> TRUE, data |-> bytes]
        ELSE [ok |-> FALSE, data |-> <<>>]

\* ============================================================= config.py
\* the outcome of building a configuration: the chunk_size it holds, or the
\* class of the exception raised
Accepted(cs) == [ok |-> TRUE, chunk_size |-> cs, error |-> "none"]

Rejected(error) == [ok |-> FALSE, chunk_size |-> 0, error |-> error]

MAX_CHUNK_SIZE == 10 * 1024 * 1024

\* QRConfig.__post_init__ -> _validate_chunk_size
QRConfig(cs) ==
    IF cs <= 0 THEN Rejected("ValueError")
    ELSE IF cs > MAX_CHUNK_SIZE THEN Rejected("ValueError")
    ELSE Accepted(cs)

\* Python's `chunk_size or default`: 0 is false
PyOr(cs, default) == IF cs = 0 THEN default ELSE cs

\* QRConfig.create_fast_config / create_compact_config / create_robust_config
create_fast_config(cs) == QRConfig(PyOr(cs, 2048))

create_compact_config(cs) == QRConfig(PyOr(cs, 2048))

create_robust_config(cs) == QRConfig(PyOr(cs, 512))

\* core/converter.py: BinaryQRConverter.__init__ without a config object
BinaryQRConverter(cs) == QRConfig(cs)

\* qrcode.constants
ERROR_CORRECT_L == 1
ERROR_CORRECT_M == 0
ERROR_CORRECT_Q == 3
ERROR_CORRECT_H == 2

ErrorCorrectionLevel ==
    [LOW |-> ERROR_CORRECT_L, MEDIUM |-> ERROR_CORRECT_M,
     QUARTILE |-> ERROR_CORRECT_Q, HIGH |-> ERROR_CORRECT_H]

\* error_correction=None: the argument is not given
NotGiven == -1

\* QRConfig._validate_error_correction
_validate_error_correction(level) ==
    level \in {ERROR_CORRECT_L, ERROR_CORRECT_M, ERROR_CORRECT_Q, ERROR_CORRECT_H}

\* BinaryQRConverter.__init__: correction_map
correction_map ==
    (1 :> ErrorCorrectionLevel.LOW) @@ (2 :> ErrorCorrectionLevel.MEDIUM)
        @@ (3 :> ErrorCorrectionLevel.QUARTILE) @@ (4 :> ErrorCorrectionLevel.HIGH)

\* BinaryQRConverter.__init__: config.error_correction after the handling of
\* the deprecated error_correction parameter
converter_error_correction(ec) ==
    IF ec = NotGiven THEN ErrorCorrectionLevel.HIGH
    ELSE IF ec \in DOMAIN correction_map THEN correction_map[ec]
    ELSE ec

\* cli/commands.py: _create_converter_from_preset
_create_converter_from_preset(preset, cs) ==
    CASE preset = "fast" -> create_fast_config(cs)
      [] preset = "compact" -> create_compact_config(cs)
      [] preset = "robust" -> create_robust_config(cs)
      [] OTHER -> Rejected("ValidationError")

\* cli/commands.py: _validate_encode_parameters
_validate_encode_parameters(cs) ==
    IF cs <= 0 THEN Rejected("ValidationError") ELSE Accepted(cs)

\* cli/commands.py: encode_command up to the converter it builds; an
\* exception that is no QRareError leaves it wrapped in an EncodingError
encode_command(preset, cs) ==
    LET built == IF preset # "none"
                 THEN _create_converter_from_preset(preset, cs)
                 ELSE IF ~_validate_encode_parameters(cs).ok
                 THEN _validate_encode_parameters(cs)
                 ELSE QRConfig(cs)
    IN  IF built.error = "ValueError" THEN Rejected("EncodingError") ELSE built

\* the ways a caller gets an encoder with a chunk size of their choice
Routes ==
    {[api |-> "QRConfig", preset |-> "none"],
     [api |-> "BinaryQRConverter", preset |-> "none"]}
    \cup [api : {"preset"}, preset : {"fast", "compact", "robust"}]
    \cup [api : {"encode_command"}, preset : {"none", "fast", "compact", "robust"}]

\* config.error_correction of the configuration a route builds
ConfigErrorCorrection(route, ec) ==
    CASE route.api = "BinaryQRConverter" -> converter_error_correction(ec)
      [] route.preset \in {"fast", "compact"} -> ErrorCorrectionLevel.LOW
      [] OTHER -> ErrorCorrectionLevel.HIGH

Construct(route, cs) ==
    CASE route.api = "QRConfig" -> QRConfig(cs)
      [] route.api = "BinaryQRConverter" -> BinaryQRConverter(cs)
      [] route.api = "preset" -> _create_converter_from_preset(route.preset, cs)
      [] OTHER -> encode_command(route.preset, cs)

\* ============================================================ encoder.py
\* _calculate_chunk_info with the chunk count rounded down
_calculate_chunk_info_floor(compressed, info, cs) ==
    LET data_size == Len(compressed)
    IN  [data_size    |-> data_size,
         total_chunks |-> data_size \div cs,
         chunk_size   |-> cs,
         filename     |-> info.name,
         file_hash    |-> info.hash]

\* QREncoder._calculate_chunk_info
_calculate_chunk_info(compressed, info, cs) ==
    LET data_size == Len(compressed)
    IN  [data_size    |-> data_size,
         total_chunks |-> (data_size + cs - 1) \div cs,
         chunk_size   |-> cs,
         filename     |-> info.name,
         file_hash    |-> info.hash]

\* _extract_chunk with the slice ending one byte early
_extract_chunk_short(compressed, idx, cinfo) ==
    LET start_pos == idx * cinfo.chunk_size
        end_pos == Min(start_pos + cinfo.chunk_size - 1, Len(compressed))
    IN  SubSeq(compressed, start_pos + 1, end_pos)

\* QREncoder._extract_chunk: compressed_data[start_pos:end_pos]
_extract_chunk(compressed, idx, cinfo) ==
    LET start_pos == idx * cinfo.chunk_size
        end_pos == Min(start_pos + cinfo.chunk_size, Len(compressed))
    IN  SubSeq(compressed, start_pos + 1, end_pos)

\* _create_chunk_metadata numbering the chunks from 1
_create_chunk_metadata_one_based(chunk, idx, cinfo) ==
    [data         |-> b64encode(chunk),
     chunk_index  |-> idx + 1,
     total_chunks |-> cinfo.total_chunks,
     filename     |-> cinfo.filename,
     file_hash    |-> cinfo.file_hash,
     version      |-> "1.0"]

\* QREncoder._create_chunk_metadata: the JSON object of one chunk
_create_chunk_metadata(chunk, idx, cinfo) ==
    [data         |-> b64encode(chunk),
     chunk_index  |-> idx,
     total_chunks |-> cinfo.total_chunks,
     filename     |-> cinfo.filename,
     file_hash    |-> cinfo.file_hash,
     version      |-> "1.0"]

\* the exception of a failed iteration leaving the loop as it is
_generate_qr_codes_error_as_raised(cause) == cause

\* _generate_qr_codes: whatever _create_qr_code (QRCodeError) or
\* _save_qr_image (EncodingError) or anything else in the iteration raises
\* leaves the loop as an EncodingError, which encode_file re-raises
_generate_qr_codes_error(cause) == "EncodingError"

\* QREncoder._create_qr_code + _save_qr_image: the image written for one
\* JSON text; scanning an undamaged image gives that text back.
_save_qr_image(metadata) == [scan |-> "ok", json |-> "ok", rec |-> metadata]

\* ============================================================ decoder.py
\* what an exception of utils/exceptions.py carries: its class, the issue or
\* operation it names, the chunk index it names (NoIndex when it names
\* none) and, for a chunk count mismatch, the two counts
Err(type, issue, index, received, expected) ==
    [type |-> type, issue |-> issue, index |-> index,
     received |-> received, expected |-> expected]

NoError == Err("none", "", NoIndex, 0, 0)

\* a JSON value that is not an integer (a string, a float, null)
NonInteger == -99

RequiredFields == <<"data", "chunk_index", "total_chunks", "filename", "file_hash">>

\* QRDecoder._validate_chunk_metadata: the ChunkError it raises, or NoError
_validate_chunk_metadata(chunk_data) ==
    LET missing == {k \in 1..Len(RequiredFields) :
                        RequiredFields[k] \notin DOMAIN chunk_data}
    IN  IF missing # {}
        THEN Err("ChunkError", "missing required field", NoIndex, 0, 0)
        ELSE IF chunk_data.chunk_index = NonInteger
        THEN Err("ChunkError", "chunk_index must be an integer", NoIndex, 0, 0)
        ELSE IF chunk_data.total_chunks = NonInteger
        THEN Err("ChunkError", "total_chunks must be an integer", NoIndex, 0, 0)
        ELSE IF chunk_data.chunk_index < 0
                \/ chunk_data.chunk_index >= chunk_data.total_chunks
        THEN Err("ChunkError", "chunk_index out of range",
                 chunk_data.chunk_index, 0, 0)
        ELSE NoError

\* QRDecoder._decode_single_qr_image: the parsed chunk, or the DecodingError
\* every failure is converted to
_decode_single_qr_image(image) ==
    IF image.scan # "ok"
    THEN [ok |-> FALSE, error |-> Err("DecodingError", "QR code reading", NoIndex, 0, 0)]
    ELSE IF image.json # "ok"
    THEN [ok |-> FALSE, error |-> Err("DecodingError", "JSON parsing", NoIndex, 0, 0)]
    ELSE IF _validate_chunk_metadata(image.rec) # NoError
    THEN [ok |-> FALSE, error |-> Err("DecodingError", "QR code reading", NoIndex, 0, 0)]
    ELSE [ok |-> TRUE, error |-> NoError]

\* _decode_all_qr_codes leaving out the images that cannot be read
_decode_all_qr_codes_skip(images) ==
    LET readable == SelectSeq(images, LAMBDA im : _decode_single_qr_image(im).ok)
        chunk_list == [i \in 1..Len(readable) |-> readable[i].rec]
    IN  IF chunk_list = <<>>
        THEN [ok |-> FALSE, chunks |-> <<>>,
              error |-> Err("DecodingError", "QR code reading", NoIndex, 0, 0)]
        ELSE [ok |-> TRUE, chunks |-> chunk_list, error |-> NoError]

\* QRDecoder._decode_all_qr_codes
_decode_all_qr_codes(images) ==
    LET readable == SelectSeq(images, LAMBDA im : _decode_single_qr_image(im).ok)
        chunk_list == [i \in 1..Len(readable) |-> readable[i].rec]
        failed_images == Len(images) - Len(readable)
    IN  IF failed_images > 0
        THEN [ok |-> FALSE, chunks |-> <<>>,
              error |-> Err("DecodingError", "QR code reading", NoIndex, failed_images, 0)]
        ELSE IF chunk_list = <<>>
        THEN [ok |-> FALSE, chunks |-> <<>>,
              error |-> Err("DecodingError", "QR code reading", NoIndex, 0, 0)]
        ELSE [ok |-> TRUE, chunks |-> chunk_list, error |-> NoError]

\* sorted(chunk_data_list, key=lambda x: x['chunk_index']): stable
RECURSIVE InsertByIndex(_, _)
InsertByIndex(sorted, chunk) ==
    IF sorted = <<>> THEN <<chunk>>
    ELSE IF sorted[Len(sorted)].chunk_index <= chunk.chunk_index
    THEN Append(sorted, chunk)
    ELSE Append(InsertByIndex(SubSeq(sorted, 1, Len(sorted) - 1), chunk),
                sorted[Len(sorted)])

\* the chunks taken in the order they arrived, not sorted
SortByIndex_unsorted(list) == list

RECURSIVE SortByIndex(_)
SortByIndex(list) ==
    IF list = <<>> THEN <<>>
    ELSE InsertByIndex(SortByIndex(SubSeq(list, 1, Len(list) - 1)), list[Len(list)])

NoMeta == [filename |-> "", file_hash |-> 0, total_chunks |-> 0]

\* the checks of one iteration without the comparison of file_hash
ChunkCheck_no_hash(sorted_chunks, i, expected) ==
    LET chunk == sorted_chunks[i + 1]
        seen_indices == {sorted_chunks[j].chunk_index : j \in 1..i}
    IN  IF chunk.chunk_index \in seen_indices
        THEN Err("ChunkError", "duplicate chunk index", chunk.chunk_index, 0, 0)
        ELSE IF chunk.chunk_index # i
        THEN Err("ChunkError", "missing chunk index", i, 0, 0)
        ELSE IF chunk.total_chunks # expected.total_chunks
        THEN Err("ChunkError", "inconsistent total_chunks", i, 0, 0)
        ELSE IF chunk.filename # expected.filename
        THEN Err("ChunkError", "inconsistent filename", i, 0, 0)
        ELSE NoError

\* the checks of one iteration of the loop of _validate_and_organize_chunks,
\* for the chunk at position i (0-based) of the sorted list
ChunkCheck(sorted_chunks, i, expected) ==
    LET chunk == sorted_chunks[i + 1]
        seen_indices == {sorted_chunks[j].chunk_index : j \in 1..i}
    IN  IF chunk.chunk_index \in seen_indices
        THEN Err("ChunkError", "duplicate chunk index", chunk.chunk_index, 0, 0)
        ELSE IF chunk.chunk_index # i
        THEN Err("ChunkError", "missing chunk index", i, 0, 0)
        ELSE IF chunk.total_chunks # expected.total_chunks
        THEN Err("ChunkError", "inconsistent total_chunks", i, 0, 0)
        ELSE IF chunk.filename # expected.filename
        THEN Err("ChunkError", "inconsistent filename", i, 0, 0)
        ELSE IF chunk.file_hash # expected.file_hash
        THEN Err("ChunkError", "inconsistent file_hash", i, 0, 0)
        ELSE NoError

\* QRDecoder._validate_and_organize_chunks
_validate_and_organize_chunks(chunk_data_list) ==
    IF chunk_data_list = <<>>
    THEN [ok |-> FALSE, chunks |-> <<>>, metadata |-> NoMeta,
          error |-> Err("ChunkError", "no chunks provided", NoIndex, 0, 0)]
    ELSE
    LET first_chunk == chunk_data_list[1]
        expected == [filename |-> first_chunk.filename,
                     file_hash |-> first_chunk.file_hash,
                     total_chunks |-> first_chunk.total_chunks]
    IN  IF Len(chunk_data_list) # expected.total_chunks
        THEN [ok |-> FALSE, chunks |-> <<>>, metadata |-> NoMeta,
              error |-> Err("ChunkError", "chunk count mismatch", NoIndex,
                            Len(chunk_data_list), expected.total_chunks)]
        ELSE
        LET sorted_chunks == SortByIndex(chunk_data_list)
            bad == {i \in 0..(Len(sorted_chunks) - 1) :
                        ChunkCheck(sorted_chunks, i, expected) # NoError}
        IN  IF bad # {}
            THEN LET i == CHOOSE m \in bad : \A o \in bad : m <= o
                 IN  [ok |-> FALSE, chunks |-> <<>>, metadata |-> NoMeta,
                      error |-> ChunkCheck(sorted_chunks, i, expected)]
            ELSE [ok |-> TRUE, chunks |-> sorted_chunks, metadata |-> expected,
                  error |-> NoError]

\* QRDecoder._reconstruct_file_data: every failure becomes a DecodingError
_reconstruct_file_data(validated) ==
    LET decoded == [i \in 1..Len(validated.chunks) |->
                        b64decode(validated.chunks[i].data)]
        compressed == Concat([i \in 1..Len(decoded) |-> decoded[i].data])
        original == decompress_data(compressed)
    IN  IF (\E i \in 1..Len(decoded) : ~decoded[i].ok) \/ ~original.ok
        THEN [ok |-> FALSE, data |-> <<>>,
              error |-> Err("DecodingError", "data reconstruction", NoIndex, 0, 0)]
        ELSE [ok |-> TRUE, data |-> original.data, error |-> NoError]

\* path_utils.get_safe_output_path: the file name itself, else the first
\* free name <stem>_<counter><suffix>; a path is the name and that counter
\* (0 for the name itself)
get_safe_output_path(dir, filename) ==
    LET taken == {f.path.counter : f \in {g \in dir : g.path.name = filename}}
        counter == CHOOSE c \in 0..Cardinality(taken) :
                        c \notin taken /\ \A d \in 0..(c - 1) : d \in taken
    IN  [name |-> filename, counter |-> counter]

NoPath == [name |-> "", counter |-> 0]

\* the content of the file at a path of the output directory
ReadOutput(dir, path) == (CHOOSE f \in dir : f.path = path).content

\* ================================================= converter.py (legacy)
\* what the legacy decode_qr_images gives back: the path it wrote, None, or
\* an exception it does not catch
LegacyResult(kind, path) == [kind |-> kind, path |-> path]

NoResult == LegacyResult("none", NoPath)

\* BinaryQRConverter.decode_qr_image: the parsed JSON object as it is, or
\* None when the image cannot be scanned or its text is not JSON
legacy_decode_qr_image(image) ==
    IF image.scan = "ok" /\ image.json = "ok"
    THEN [ok |-> TRUE, chunk |-> image.rec]
    ELSE [ok |-> FALSE, chunk |-> <<>>]

\* the consistency checks of the legacy loop for the chunk at position i
\* (0-based) of the sorted list
LegacyChunkOk(chunk, i, first_chunk) ==
    /\ chunk.total_chunks = first_chunk.total_chunks
    /\ chunk.filename = first_chunk.filename
    /\ chunk.file_hash = first_chunk.file_hash
    /\ chunk.chunk_index = i

\* open(output_path, 'wb'): a file of that name is replaced
WriteFile(dir, path, content) ==
    {f \in dir : f.path # path} \cup {[path |-> path, content |-> content]}

\* BinaryQRConverter.decode_qr_images after its reading loop: sort, checks,
\* reconstruction, write, hash verification
legacy_assemble(list, dir) ==
    IF \E k \in 1..Len(list) : "chunk_index" \notin DOMAIN list[k]
    THEN [result |-> LegacyResult("KeyError", NoPath), dir |-> dir]
    ELSE IF Len(list) >= 2 /\ \E k \in 1..Len(list) : list[k].chunk_index = NonInteger
    THEN [result |-> LegacyResult("TypeError", NoPath), dir |-> dir]
    ELSE IF list = <<>>
    THEN [result |-> LegacyResult("None", NoPath), dir |-> dir]
    ELSE
    LET sorted_list == SortByIndex(list)
        first_chunk == sorted_list[1]
    IN  IF Len(sorted_list) # first_chunk.total_chunks
        THEN [result |-> LegacyResult("None", NoPath), dir |-> dir]
        ELSE IF \E i \in 0..(Len(sorted_list) - 1) :
                    ~LegacyChunkOk(sorted_list[i + 1], i, first_chunk)
        THEN [result |-> LegacyResult("None", NoPath), dir |-> dir]
        ELSE IF \E k \in 1..Len(sorted_list) : "data" \notin DOMAIN sorted_list[k]
        THEN [result |-> LegacyResult("KeyError", NoPath), dir |-> dir]
        ELSE
        LET decoded == [k \in 1..Len(sorted_list) |-> b64decode(sorted_list[k].data)]
            compressed == Concat([k \in 1..Len(decoded) |-> decoded[k].data])
            original == decompress_data(compressed)
            path == [name |-> first_chunk.filename, counter |-> 0]
            written == WriteFile(dir, path, original.data)
        IN  IF \E k \in 1..Len(decoded) : ~decoded[k].ok
            THEN [result |-> LegacyResult("binascii.Error", NoPath), dir |-> dir]
            ELSE IF ~original.ok
            THEN [result |-> LegacyResult("None", NoPath), dir |-> dir]
            ELSE IF calculate_file_hash(original.data) # first_chunk.file_hash
            THEN [result |-> LegacyResult("None", NoPath), dir |-> written]
            ELSE [result |-> LegacyResult("path", path), dir |-> written]

\* the integrity check accepting any content
_verify_file_integrity_skip(content, metadata) == NoError

\* QRDecoder._verify_file_integrity: the IntegrityError it raises, or NoError
_verify_file_integrity(content, metadata) ==
    LET reconstructed_hash == calculate_file_hash(content)
        expected_hash == metadata.file_hash
    IN  IF reconstructed_hash # expected_hash
        THEN Err("IntegrityError", "hash mismatch", NoIndex, 0, 0)
        ELSE NoError

\* ------------------------------------------------------- analysis mode
\* list.sort() of the found chunk indices
RECURSIVE InsertInt(_, _)
InsertInt(sorted, v) ==
    IF sorted = <<>> THEN <<v>>
    ELSE IF sorted[Len(sorted)] <= v
    THEN Append(sorted, v)
    ELSE Append(InsertInt(SubSeq(sorted, 1, Len(sorted) - 1), v), sorted[Len(sorted)])

RECURSIVE SortInts(_)
SortInts(list) ==
    IF list = <<>> THEN <<>>
    ELSE InsertInt(SortInts(SubSeq(list, 1, Len(list) - 1)), list[Len(list)])

EmptyAnalysis(n) ==
    [total_images |-> n, readable_qrs |-> 0, failed_qrs |-> 0,
     unique_files |-> {}, chunk_info |-> <<>>, errors |-> <<>>, raised |-> FALSE]

\* the body of the loop of analyze_qr_images for the image at position k
AnalyzeImage(analysis, image, k) ==
    IF _decode_single_qr_image(image).ok
    THEN LET chunk_data == image.rec
             filename == chunk_data.filename
             known == analysis.chunk_info
             entry == IF filename \in DOMAIN known
                      THEN known[filename]
                      ELSE [total_chunks |-> chunk_data.total_chunks,
                            found_chunks |-> <<>>,
                            file_hash |-> chunk_data.file_hash,
                            is_complete |-> FALSE]
             added == [entry EXCEPT !.found_chunks = Append(@, chunk_data.chunk_index)]
         IN  [analysis EXCEPT
                 !.readable_qrs = @ + 1,
                 !.unique_files = @ \cup {filename},
                 !.chunk_info = [f \in (DOMAIN known) \cup {filename} |->
                                    IF f = filename THEN added ELSE known[f]]]
    ELSE [analysis EXCEPT !.failed_qrs = @ + 1, !.errors = Append(@, k)]

\* the loop giving up at the first image that cannot be read
RECURSIVE AnalyzeLoop_abort(_, _, _)
AnalyzeLoop_abort(analysis, images, k) ==
    IF k > Len(images) THEN analysis
    ELSE IF ~_decode_single_qr_image(images[k]).ok
    THEN [analysis EXCEPT !.raised = TRUE]
    ELSE AnalyzeLoop_abort(AnalyzeImage(analysis, images[k], k), images, k + 1)

RECURSIVE AnalyzeLoop(_, _, _)
AnalyzeLoop(analysis, images, k) ==
    IF k > Len(images) THEN analysis
    ELSE AnalyzeLoop(AnalyzeImage(analysis, images[k], k), images, k + 1)

\* the completeness check asking only that every found index is in range
CheckCompleteness_in_range(info) ==
    LET found == SortInts(info.found_chunks)
    IN  [info EXCEPT
            !.found_chunks = found,
            !.is_complete = \A i \in 1..Len(found) :
                                0 <= found[i] /\ found[i] < info.total_chunks]

\* the completeness check that closes analyze_qr_images
CheckCompleteness(info) ==
    LET found == SortInts(info.found_chunks)
    IN  [info EXCEPT
            !.found_chunks = found,
            !.is_complete = /\ Len(found) = info.total_chunks
                            /\ found = [i \in 1..info.total_chunks |-> i - 1]]

\* QRDecoder.analyze_qr_images
analyze_qr_images(images) ==
    LET analysis == AnalyzeLoop(EmptyAnalysis(Len(images)), images, 1)
    IN  [analysis EXCEPT
            !.chunk_info = [f \in DOMAIN analysis.chunk_info |->
                                CheckCompleteness(analysis.chunk_info[f])]]

\* ============================================================ commands.py
\* _validate_analysis_results accepting a report with incomplete files
_validate_analysis_results_readable_only(analysis) ==
    IF analysis.readable_qrs = 0
    THEN Err("ValidationError", "qr_codes", NoIndex, 0, 0)
    ELSE NoError

\* _validate_analysis_results: the ValidationError it raises, if any
_validate_analysis_results(analysis) ==
    LET incomplete_files == {f \in DOMAIN analysis.chunk_info :
                                ~analysis.chunk_info[f].is_complete}
    IN  IF analysis.readable_qrs = 0
        THEN Err("ValidationError", "qr_codes", NoIndex, 0, 0)
        ELSE IF incomplete_files # {}
        THEN Err("ValidationError", "qr_chunks", NoIndex, 0, 0)
        ELSE NoError

NoInfo == [name |-> "", hash |-> 0]
NoChunkInfo == [data_size |-> 0, total_chunks |-> 0, chunk_size |-> 0,
                filename |-> "", file_hash |-> 0]

\* ========================================================= path_utils.py
\* A name is the sequence of its characters.  Python compares strings by
\* code point: Ord gives the code point of every character used here.
Ord(c) ==
    CASE c = " " -> 32 [] c = "." -> 46 [] c = "/" -> 47 [] c = ":" -> 58
      [] c = "0" -> 48 [] c = "1" -> 49 [] c = "2" -> 50 [] c = "3" -> 51
      [] c = "4" -> 52 [] c = "5" -> 53 [] c = "6" -> 54 [] c = "7" -> 55
      [] c = "8" -> 56 [] c = "9" -> 57 [] c = "_" -> 95
      [] c = "a" -> 97 [] c = "b" -> 98 [] c = "c" -> 99 [] c = "e" -> 101
      [] c = "f" -> 102 [] c = "g" -> 103 [] c = "h" -> 104 [] c = "i" -> 105
      [] c = "k" -> 107 [] c = "l" -> 108 [] c = "m" -> 109 [] c = "n" -> 110
      [] c = "o" -> 111 [] c = "p" -> 112 [] c = "u" -> 117 [] c = "d" -> 100

\* s < t for two Python strings
RECURSIVE StrLess(_, _)
StrLess(s, t) ==
    IF t = <<>> THEN FALSE
    ELSE IF s = <<>> THEN TRUE
    ELSE IF s[1] # t[1] THEN Ord(s[1]) < Ord(t[1])
    ELSE StrLess(Tail(s), Tail(t))

DigitChars == <<"0", "1", "2", "3", "4", "5", "6", "7", "8", "9">>

\* str(n) for n >= 0
RECURSIVE Str(_)
Str(n) ==
    IF n < 10 THEN <<DigitChars[n + 1]>>
    ELSE Str(n \div 10) \o <<DigitChars[(n % 10) + 1]>>

\* f"{n:0{width}d}" for n >= 0: zeros in front up to the width, never cut
ZeroPadded(n, width) ==
    LET digits == Str(n)
    IN  [i \in 1..(IF Len(digits) < width THEN width - Len(digits) ELSE 0) |-> "0"]
            \o digits

DEFAULT_IMAGE_EXTENSION == <<".", "p", "n", "g">>

ProblematicChars == {"<", ">", ":", "\"", "/", "\\", "|", "?", "*"}

\* str.strip('. '): leading and trailing dots and spaces removed
RECURSIVE StripLeft(_)
StripLeft(s) ==
    IF s # <<>> /\ s[1] \in {".", " "} THEN StripLeft(Tail(s)) ELSE s

RECURSIVE StripRight(_)
StripRight(s) ==
    IF s # <<>> /\ s[Len(s)] \in {".", " "}
    THEN StripRight(SubSeq(s, 1, Len(s) - 1))
    ELSE s

\* _sanitize_filename
_sanitize_filename(filename) ==
    LET replaced == [i \in 1..Len(filename) |->
                        IF filename[i] \in ProblematicChars THEN "_" ELSE filename[i]]
        sanitized == StripRight(StripLeft(replaced))
    IN  IF sanitized = <<>>
        THEN <<"u", "n", "n", "a", "m", "e", "d", "_", "f", "i", "l", "e">>
        ELSE sanitized

\* generate_qr_filename
generate_qr_filename(original_filename, idx, total_chunks) ==
    LET clean_name == _sanitize_filename(original_filename)
        chunk_digits == Len(Str(total_chunks))
    IN  clean_name \o <<"_", "c", "h", "u", "n", "k", "_">>
            \o ZeroPadded(idx + 1, chunk_digits)
            \o <<"_", "o", "f", "_">> \o Str(total_chunks)
            \o DEFAULT_IMAGE_EXTENSION

\* legacy converter.py, encode_file: the image name, the number not padded
legacy_image_filename(original_filename, i, total_chunks) ==
    original_filename \o <<"_", "c", "h", "u", "n", "k", "_">>
        \o Str(i + 1)
        \o <<"_", "o", "f", "_">> \o Str(total_chunks)
        \o <<".", "p", "n", "g">>

\* sorted(image_paths, key=lambda p: p.name) over the files of a directory
RECURSIVE SortedNames(_)
SortedNames(names) ==
    IF names = {} THEN <<>>
    ELSE LET first == CHOOSE n \in names : \A m \in names \ {n} : StrLess(n, m)
         IN  <<first>> \o SortedNames(names \ {first})

\* ------------------------------------------------ paths as the OS sees them
\* the segments of a path text between its separators; pathlib drops empty
\* segments and "." segments
RECURSIVE Segments(_, _)
Segments(text, current) ==
    LET closed == IF current = <<>> \/ current = <<".">> THEN <<>> ELSE <<current>>
    IN  IF text = <<>> THEN closed
        ELSE IF text[1] = "/" THEN closed \o Segments(Tail(text), <<>>)
        ELSE Segments(Tail(text), Append(current, text[1]))

\* ".." leaves a directory; above the root there is nothing
RECURSIVE Resolve(_, _)
Resolve(segments, done) ==
    IF segments = <<>> THEN done
    ELSE IF segments[1] = <<".", ".">>
    THEN Resolve(Tail(segments),
                 IF done = <<>> THEN <<>> ELSE SubSeq(done, 1, Len(done) - 1))
    ELSE Resolve(Tail(segments), Append(done, segments[1]))

\* output_dir / filename, as the file system resolves it: an absolute
\* filename replaces the directory
JoinPath(dir, filename) ==
    IF filename # <<>> /\ filename[1] = "/"
    THEN Resolve(Segments(filename, <<>>), <<>>)
    ELSE Resolve(dir \o Segments(filename, <<>>), <<>>)

\* the path is a file below the directory
Inside(dir, path) == Len(path) > Len(dir) /\ SubSeq(path, 1, Len(dir)) = dir

\* the output directory of the decode, an existing directory below the root
OutputDir == <<<<"o", "u", "t">>>>

\* _save_reconstructed_file for a first file of that name: the path of
\* get_safe_output_path, written by write_file, which makes the missing
\* parent directories; a path that is an existing directory cannot be opened
save_reconstructed_path(filename) ==
    LET output_path == JoinPath(OutputDir, filename)
    IN  IF output_path = <<>> \/ output_path = OutputDir
        THEN [ok |-> FALSE, path |-> <<>>]
        ELSE [ok |-> TRUE, path |-> output_path]

\* ================================================== qraro.py, qrare.py
HexChars == <<"0", "1", "2", "3", "4", "5", "6", "7", "8", "9",
              "a", "b", "c", "d", "e", "f">>

\* bytes.hex(): two hexadecimal digits per byte
hex(data) ==
    Concat([k \in 1..Len(data) |->
               <<HexChars[(data[k] \div 16) + 1], HexChars[(data[k] % 16) + 1]>>])

HexValue(c) == CHOOSE v \in 0..15 : HexChars[v + 1] = c

\* bytes.fromhex(): ValueError on an odd number of digits
fromhex(text) ==
    IF Len(text) % 2 # 0
    THEN [ok |-> FALSE, data |-> <<>>]
    ELSE [ok |-> TRUE,
          data |-> [k \in 1..(Len(text) \div 2) |->
                       16 * HexValue(text[2 * k - 1]) + HexValue(text[2 * k])]]

\* [hex_data[i:i+chunk_size] for i in range(0, len(hex_data), chunk_size)]
HexChunks(hex_data, cs) ==
    [k \in 1..((Len(hex_data) + cs - 1) \div cs) |->
        SubSeq(hex_data, (k - 1) * cs + 1, Min(k * cs, Len(hex_data)))]

\* f"{i}/{total_chunks}:{chunk}"
QrText(i, total_chunks, chunk) ==
    Str(i) \o <<"/">> \o Str(total_chunks) \o <<":">> \o chunk

\* the position of the first c in text
IndexOf(text, c) == CHOOSE k \in 1..Len(text) :
                        text[k] = c /\ \A j \in 1..(k - 1) : text[j] # c

\* int() of a string of decimal digits
RECURSIVE ParseInt(_)
ParseInt(digits) ==
    IF digits = <<>> THEN 0
    ELSE 10 * ParseInt(SubSeq(digits, 1, Len(digits) - 1))
            + (CHOOSE v \in 0..9 : DigitChars[v + 1] = digits[Len(digits)])

\* decoded.split(':', 1), then map(int, chunk_info.split('/'))
ParseQrText(decoded) ==
    LET colon == IndexOf(decoded, ":")
        chunk_info == SubSeq(decoded, 1, colon - 1)
        slash == IndexOf(chunk_info, "/")
    IN  [chunk_num    |-> ParseInt(SubSeq(chunk_info, 1, slash - 1)),
         total_chunks |-> ParseInt(SubSeq(chunk_info, slash + 1, Len(chunk_info))),
         chunk_data   |-> SubSeq(decoded, colon + 1, Len(decoded))]

\* qrare.py compresses with gzip before the hexadecimal conversion
compress_bytes(module, data) ==
    IF module = "qrare.py" THEN compress_data(data) ELSE data

decompress_bytes(module, data) ==
    IF module = "qrare.py" THEN decompress_data(data) ELSE [ok |-> TRUE, data |-> data]

\* what qr_to_bin gives back: bytes, None, or how it ended otherwise
BinResult(kind, data) == [kind |-> kind, data |-> data]

NoBinResult == BinResult("none", <<>>)

\* the end of qr_to_bin, after its loop
qr_to_bin_return(module, chunks) ==
    IF DOMAIN chunks = {}
    THEN BinResult("None", <<>>)
    ELSE IF \E k \in 1..Cardinality(DOMAIN chunks) : k \notin DOMAIN chunks
    THEN BinResult("KeyError", <<>>)
    ELSE LET hex_data == Concat([k \in 1..Cardinality(DOMAIN chunks) |-> chunks[k]])
             raw == fromhex(hex_data)
             plain == decompress_bytes(module, raw.data)
         IN  IF ~raw.ok THEN BinResult("ValueError", <<>>)
             ELSE IF ~plain.ok THEN BinResult("decompression error", <<>>)
             ELSE BinResult("bytes", plain.data)

\* the artifact name of chunk idx, by the encoder that writes it
ArtifactName(generator, original_filename, idx, total_chunks) ==
    IF generator = "generate_qr_filename"
    THEN generate_qr_filename(original_filename, idx, total_chunks)
    ELSE legacy_image_filename(original_filename, idx, total_chunks)

VARIABLES
    cfg_route,        \* how the caller builds the configuration
    cfg_chunk_size,   \* the chunk size the caller asks for
    cfg_error,        \* the exception building the configuration raised
    cfg_error_correction, \* the error_correction argument of the caller
    error_correction, \* config.error_correction
    file_data,        \* content of the source file
    chunk_size,       \* config.chunk_size
    enc_pc,           \* position inside QREncoder.encode_file
    enc_error,        \* the exception encode_file raised, if any
    file_info,        \* result of _prepare_file_info
    compressed_data,  \* result of _read_and_compress_file
    chunk_info,       \* result of _calculate_chunk_info
    chunk_index,      \* loop variable of _generate_qr_codes
    qr_image_paths,   \* images saved so far, in the order they were saved
    image_paths,      \* the images handed to the decoder, in the caller's order
    edits,            \* how often the caller's list was changed since encoding
    dec_pc,           \* position inside QRDecoder.decode_qr_images
    chunk_data_list,  \* result of _decode_all_qr_codes
    validated_chunks, \* result of _validate_and_organize_chunks
    recon_data,       \* result of _reconstruct_file_data
    output_path,      \* result of _save_reconstructed_file
    dec_error,        \* the exception decode_qr_images raised, if any
    out_dir,          \* the files of the output directory
    ana_pc,           \* position inside QRDecoder.analyze_qr_images
    analysis,         \* the report analyze_qr_images returned
    leg_pc,           \* position inside the legacy decode_qr_images
    leg_chunk_data_list, \* the legacy decoder's chunk_data_list
    leg_result,       \* what the legacy decode_qr_images gave back
    leg_out_dir,      \* the files of the legacy decoder's output directory
    name_generator,   \* which encoder names the artifacts
    name_original,    \* the file name the artifacts are named after
    name_total_chunks, \* total_chunks of the encoding being named
    name_list,        \* the artifact names written so far, in chunk index order
    sorted_paths,     \* what get_image_paths returns for the artifact directory
    cmd_pc,           \* position inside decode_command
    cmd_error,        \* the exception decode_command raised, if any
    existing_files,   \* the files the output directory held before any decode
    decode_calls,     \* calls of decode_qr_images that have returned or raised
    legacy_calls,     \* calls of the legacy decode_qr_images that have returned
    legacy_module,    \* which module bin_to_qr and qr_to_bin are taken from
    hex_chunk_size,   \* chunk_size of bin_to_qr, in hexadecimal digits
    bin_data,         \* the data argument of the running or last bin_to_qr
    bin_pc,           \* position inside bin_to_qr
    bin_chunks,       \* chunks of bin_to_qr
    bin_i,            \* loop variable of bin_to_qr
    bin_calls,        \* calls of bin_to_qr that have returned
    prefix_files,     \* text of the image <prefix>_<i>.png, for every i that exists
    q2b_pc,           \* position inside qr_to_bin
    q2b_i,            \* loop variable of qr_to_bin
    q2b_chunks,       \* chunks of qr_to_bin
    q2b_result,       \* what qr_to_bin gave back
    path_pc,          \* position of the run that names and writes one file
    path_file,        \* the path given to encode_file, as characters
    path_filename,    \* the filename field of the chunks, as characters
    path_artifact,    \* the name of the artifact of chunk 0
    path_written      \* where _save_reconstructed_file wrote, as path segments

encVars == <<cfg_route, cfg_chunk_size, cfg_error, cfg_error_correction,
             error_correction, enc_error, file_data, chunk_size, enc_pc, file_info,
             compressed_data, chunk_info, chunk_index, qr_image_paths>>

legVars == <<leg_pc, leg_chunk_data_list, leg_result, leg_out_dir>>

namingVars == <<name_generator, name_original, name_total_chunks, name_list, sorted_paths>>

\* the state of the operations that stand beside encode_file and decode_qr_images
commandVars == <<cmd_pc, cmd_error>>

repeatVars == <<existing_files, decode_calls, legacy_calls>>

qraroVars == <<legacy_module, hex_chunk_size, bin_data, bin_pc, bin_chunks, bin_i,
               bin_calls, prefix_files, q2b_pc, q2b_i, q2b_chunks, q2b_result>>

pathVars == <<path_pc, path_file, path_filename, path_artifact, path_written>>

sideVars == <<namingVars, commandVars, repeatVars, qraroVars, pathVars>>

decVars == <<image_paths, edits, dec_pc, chunk_data_list, validated_chunks,
             recon_data, output_path, dec_error, out_dir, ana_pc, analysis,
             legVars, sideVars>>

vars == <<encVars, decVars>>

EncInit ==
    /\ file_data \in SeqsUpTo(Byte, MaxFileLen)
    /\ chunk_size \in 1..MaxChunkSize
    /\ cfg_route = [api |-> "QRConfig", preset |-> "none"]
    /\ cfg_chunk_size = chunk_size
    /\ cfg_error = "none"
    /\ cfg_error_correction = NotGiven
    /\ error_correction = ErrorCorrectionLevel.HIGH
    /\ enc_error = "none"
    /\ enc_pc = "start"
    /\ file_info = NoInfo
    /\ compressed_data = <<>>
    /\ chunk_info = NoChunkInfo
    /\ chunk_index = 0
    /\ qr_image_paths = <<>>

NoValidated == [chunks |-> <<>>, metadata |-> NoMeta]

\* no artifact is being named
NamingIdle ==
    /\ name_generator = "none"
    /\ name_original = <<>>
    /\ name_total_chunks = 0
    /\ name_list = <<>>
    /\ sorted_paths = <<>>

\* decode_command is not running
CommandIdle ==
    /\ cmd_pc = "none"
    /\ cmd_error = NoError

\* an output directory that starts empty, and a first decode
RepeatIdle ==
    /\ existing_files = {}
    /\ decode_calls = 0
    /\ legacy_calls = 0

\* bin_to_qr and qr_to_bin are not in use
QraroIdle ==
    /\ legacy_module = "none"
    /\ hex_chunk_size = 1
    /\ bin_data = <<>>
    /\ bin_pc = "idle"
    /\ bin_chunks = <<>>
    /\ bin_i = 1
    /\ bin_calls = 0
    /\ prefix_files = <<>>
    /\ q2b_pc = "idle"
    /\ q2b_i = 1
    /\ q2b_chunks = <<>>
    /\ q2b_result = NoBinResult

\* no file name is followed to the place where it is written
PathIdle ==
    /\ path_pc = "idle"
    /\ path_file = <<>>
    /\ path_filename = <<>>
    /\ path_artifact = <<>>
    /\ path_written = <<>>

SideIdle == NamingIdle /\ CommandIdle /\ RepeatIdle /\ QraroIdle /\ PathIdle

\* no file is being encoded
EncIdle ==
    /\ file_data = <<>>
    /\ chunk_size = 1
    /\ cfg_route = [api |-> "QRConfig", preset |-> "none"]
    /\ cfg_chunk_size = chunk_size
    /\ cfg_error = "none"
    /\ cfg_error_correction = NotGiven
    /\ error_correction = ErrorCorrectionLevel.HIGH
    /\ enc_error = "none"
    /\ enc_pc = "idle"
    /\ file_info = NoInfo
    /\ compressed_data = <<>>
    /\ chunk_info = NoChunkInfo
    /\ chunk_index = 0
    /\ qr_image_paths = <<>>

DecIdle ==
    /\ image_paths = <<>>
    /\ edits = 0
    /\ dec_pc = "idle"
    /\ chunk_data_list = <<>>
    /\ validated_chunks = NoValidated
    /\ recon_data = <<>>
    /\ output_path = NoPath
    /\ dec_error = NoError
    /\ out_dir = {}
    /\ ana_pc = "idle"
    /\ analysis = EmptyAnalysis(0)
    /\ leg_pc = "idle"
    /\ leg_chunk_data_list = <<>>
    /\ leg_result = NoResult
    /\ leg_out_dir = {}

DecInit == DecIdle /\ SideIdle

\* encode_file -> _prepare_file_info -> FileManager.get_file_info
PrepareFileInfo ==
    /\ enc_pc = "start"
    /\ file_info' = [name |-> FileName, hash |-> calculate_file_hash(file_data)]
    /\ enc_pc' = "info"
    /\ UNCHANGED <<cfg_route, cfg_chunk_size, cfg_error, cfg_error_correction,
                   error_correction, enc_error, file_data, chunk_size, compressed_data, chunk_info,
                   chunk_index, qr_image_paths>>
    /\ UNCHANGED decVars

\* encode_file -> _read_and_compress_file
ReadAndCompressFile ==
    /\ enc_pc = "info"
    /\ compressed_data' = compress_data(file_data)
    /\ enc_pc' = "compressed"
    /\ UNCHANGED <<cfg_route, cfg_chunk_size, cfg_error, cfg_error_correction,
                   error_correction, enc_error, file_data, chunk_size, file_info, chunk_info,
                   chunk_index, qr_image_paths>>
    /\ UNCHANGED decVars

\* encode_file -> _calculate_chunk_info, then entry of _generate_qr_codes
CalculateChunkInfo ==
    /\ enc_pc = "compressed"
    /\ chunk_info' = _calculate_chunk_info(compressed_data, file_info, chunk_size)
    /\ chunk_index' = 0
    /\ enc_pc' = "loop"
    /\ UNCHANGED <<cfg_route, cfg_chunk_size, cfg_error, cfg_error_correction,
                   error_correction, enc_error, file_data, chunk_size, file_info, compressed_data,
                   qr_image_paths>>
    /\ UNCHANGED decVars

\* one iteration of the loop of _generate_qr_codes
GenerateQRCode ==
    /\ enc_pc = "loop"
    /\ chunk_index < chunk_info.total_chunks
    /\ LET chunk == _extract_chunk(compressed_data, chunk_index, chunk_info)
           metadata == _create_chunk_metadata(chunk, chunk_index, chunk_info)
       IN  qr_image_paths' = Append(qr_image_paths, _save_qr_image(metadata))
    /\ chunk_index' = chunk_index + 1
    /\ UNCHANGED <<cfg_route, cfg_chunk_size, cfg_error, cfg_error_correction,
                   error_correction, enc_error, file_data, chunk_size, enc_pc, file_info, compressed_data,
                   chunk_info>>
    /\ UNCHANGED decVars

\* an iteration in which rendering or saving raises: EncodingError
GenerateQRCodeFails ==
    /\ enc_pc = "loop"
    /\ chunk_index < chunk_info.total_chunks
    /\ enc_pc' = "failed"
    /\ \E cause \in {"QRCodeError", "EncodingError", "OSError"} :
          enc_error' = _generate_qr_codes_error(cause)
    /\ UNCHANGED <<cfg_route, cfg_chunk_size, cfg_error, cfg_error_correction,
                   error_correction, file_data, chunk_size, file_info, compressed_data,
                   chunk_info, chunk_index, qr_image_paths>>
    /\ UNCHANGED decVars

\* the loop is exhausted: encode_file returns qr_image_paths
EncodeReturn ==
    /\ enc_pc = "loop"
    /\ chunk_index >= chunk_info.total_chunks
    /\ enc_pc' = "done"
    /\ UNCHANGED <<cfg_route, cfg_chunk_size, cfg_error, cfg_error_correction,
                   error_correction, enc_error, file_data, chunk_size, file_info, compressed_data,
                   chunk_info, chunk_index, qr_image_paths>>
    /\ image_paths' = qr_image_paths
    /\ UNCHANGED <<edits, dec_pc, chunk_data_list, validated_chunks, recon_data,
                   output_path, dec_error, out_dir, ana_pc, analysis, legVars,
                   sideVars>>

\* ------------------------------------------- the caller's list of images
\* Between encoding and decoding the caller may hand over any list made of
\* the saved images: some left out, some twice, in another order, damaged,
\* or replaced by the image of a chunk of another file.
CanEdit ==
    /\ enc_pc = "done"
    /\ dec_pc = "idle"
    /\ ana_pc = "idle"
    /\ leg_pc = "idle"
    /\ cmd_pc \in {"none", "start"}
    /\ edits < MaxEdits

EditFrame ==
    UNCHANGED <<encVars, dec_pc, chunk_data_list, validated_chunks, recon_data,
                output_path, dec_error, out_dir, ana_pc, analysis, legVars,
                sideVars>>

RemoveImage ==
    /\ CanEdit
    /\ \E i \in 1..Len(image_paths) : image_paths' = RemoveAt(image_paths, i)
    /\ edits' = edits + 1
    /\ EditFrame

DuplicateImage ==
    /\ CanEdit
    /\ \E i \in 1..Len(image_paths) : image_paths' = Append(image_paths, image_paths[i])
    /\ edits' = edits + 1
    /\ EditFrame

SwapImages ==
    /\ CanEdit
    /\ \E i \in 1..(Len(image_paths) - 1) :
          /\ image_paths[i] # image_paths[i + 1]
          /\ image_paths' = [image_paths EXCEPT ![i] = image_paths[i + 1],
                                                ![i + 1] = image_paths[i]]
    /\ edits' = edits + 1
    /\ EditFrame

\* the image can no longer be scanned, or its text is no longer JSON
DamageImage ==
    /\ CanEdit
    /\ \E i \in 1..Len(image_paths) :
          /\ image_paths[i].scan = "ok" /\ image_paths[i].json = "ok"
          /\ \/ image_paths' = [image_paths EXCEPT ![i].scan = "noqr"]
             \/ image_paths' = [image_paths EXCEPT ![i].json = "bad"]
    /\ edits' = edits + 1
    /\ EditFrame

\* the image shows a QR code whose text is a JSON object
HasRecord(image) == image.scan = "ok" /\ image.json = "ok"

\* the hash of another file
ForeignHash(h) == IF h = 0 THEN 1 ELSE 0

\* the image of a chunk that differs in one metadata field
ForeignImage ==
    /\ CanEdit
    /\ \E i \in 1..Len(image_paths) :
          /\ HasRecord(image_paths[i])
          /\ \/ image_paths' = [image_paths EXCEPT ![i].rec.file_hash = ForeignHash(@)]
             \/ /\ image_paths[i].rec.filename = FileName
                /\ image_paths' = [image_paths EXCEPT ![i].rec.filename = ForeignName]
             \/ /\ image_paths[i].rec.total_chunks = chunk_info.total_chunks
                /\ image_paths' = [image_paths EXCEPT ![i].rec.total_chunks = @ + 1]
    /\ edits' = edits + 1
    /\ EditFrame

\* the record of an image with one field left out
WithoutField(rec, field) == [f \in (DOMAIN rec) \ {field} |-> rec[f]]

\* the record of an image whose chunk_index is the JSON value true or false:
\* Python reads it as a bool, which is an int (True == 1, False == 0), so
\* the record keeps the number and is tagged with the type
WithBoolIndex(rec) == rec @@ ("chunk_index_type" :> "bool")

\* the image of a record that is not a well-formed chunk: a required field
\* absent, chunk_index or total_chunks not an integer, chunk_index out of
\* range
MalformImage ==
    /\ CanEdit
    /\ \E i \in 1..Len(image_paths) :
          LET rec == image_paths[i].rec
          IN  /\ HasRecord(image_paths[i])
              /\ \A k \in 1..Len(RequiredFields) : RequiredFields[k] \in DOMAIN rec
              /\ "chunk_index_type" \notin DOMAIN rec
              /\ rec.chunk_index # NonInteger /\ rec.total_chunks # NonInteger
              /\ \/ \E field \in {"data", "chunk_index"} :
                        image_paths' = [image_paths EXCEPT ![i].rec = WithoutField(rec, field)]
                 \/ image_paths' = [image_paths EXCEPT ![i].rec.chunk_index = NonInteger]
                 \/ image_paths' = [image_paths EXCEPT ![i].rec.total_chunks = NonInteger]
                 \/ image_paths' = [image_paths EXCEPT ![i].rec.chunk_index = rec.total_chunks]
                 \/ /\ rec.chunk_index \in {0, 1}
                    /\ image_paths' = [image_paths EXCEPT ![i].rec = WithBoolIndex(rec)]
    /\ edits' = edits + 1
    /\ EditFrame

\* one byte of the payload of an image is altered
TamperImage ==
    /\ CanEdit
    /\ \E i \in 1..Len(image_paths) :
          LET payload == IF HasRecord(image_paths[i]) /\ "data" \in DOMAIN image_paths[i].rec
                         THEN b64decode(image_paths[i].rec.data).data
                         ELSE <<>>
          IN  \E p \in 1..Len(payload) :
                 image_paths' = [image_paths EXCEPT ![i].rec.data =
                                    b64encode([payload EXCEPT ![p] = 1 - @])]
    /\ edits' = edits + 1
    /\ EditFrame

\* ------------------------------------------------ decode_qr_images (strict)
DecFrame ==
    UNCHANGED <<encVars, image_paths, edits, ana_pc, analysis, legVars, sideVars>>

\* the stage that follows a stage of decode_qr_images
NextStage(pc) ==
    CASE pc = "idle" -> "collected"
      [] pc = "collected" -> "validated"
      [] pc = "validated" -> "reconstructed"
      [] pc = "reconstructed" -> "saved"
      [] OTHER -> "done"

\* the exception recorded, the decode carrying on with the next stage
Fail_swallow(error) ==
    /\ dec_pc' = NextStage(dec_pc)
    /\ dec_error' = error

\* an exception leaves decode_qr_images: every handler re-raises
Fail(error) ==
    /\ dec_pc' = "failed"
    /\ dec_error' = error

\* stage 1: the argument check, then _decode_all_qr_codes
DecodeAllQRCodesStage ==
    /\ dec_pc = "idle"
    /\ LET r == _decode_all_qr_codes(image_paths)
       IN  IF image_paths = <<>>
           THEN /\ Fail(Err("ValidationError", "image_paths", NoIndex, 0, 0))
                /\ UNCHANGED chunk_data_list
           ELSE IF ~r.ok
           THEN /\ Fail(r.error)
                /\ UNCHANGED chunk_data_list
           ELSE /\ chunk_data_list' = r.chunks
                /\ dec_pc' = "collected"
                /\ UNCHANGED dec_error
    /\ UNCHANGED <<validated_chunks, recon_data, output_path, out_dir>>
    /\ DecFrame

\* decode_qr_images called on its own
DecodeAllQRCodes ==
    /\ enc_pc = "done"
    /\ ana_pc = "idle"
    /\ leg_pc = "idle"
    /\ cmd_pc = "none"
    /\ DecodeAllQRCodesStage

\* stage 2: _validate_and_organize_chunks
ValidateAndOrganizeChunks ==
    /\ dec_pc = "collected"
    /\ LET r == _validate_and_organize_chunks(chunk_data_list)
       IN  IF ~r.ok
           THEN /\ Fail(r.error)
                /\ UNCHANGED validated_chunks
           ELSE /\ validated_chunks' = [chunks |-> r.chunks, metadata |-> r.metadata]
                /\ dec_pc' = "validated"
                /\ UNCHANGED dec_error
    /\ UNCHANGED <<chunk_data_list, recon_data, output_path, out_dir>>
    /\ DecFrame

\* stage 3: _reconstruct_file_data
ReconstructFileData ==
    /\ dec_pc = "validated"
    /\ LET r == _reconstruct_file_data(validated_chunks)
       IN  IF ~r.ok
           THEN /\ Fail(r.error)
                /\ UNCHANGED recon_data
           ELSE /\ recon_data' = r.data
                /\ dec_pc' = "reconstructed"
                /\ UNCHANGED dec_error
    /\ UNCHANGED <<chunk_data_list, validated_chunks, output_path, out_dir>>
    /\ DecFrame

\* stage 4: _save_reconstructed_file
SaveReconstructedFile ==
    /\ dec_pc = "reconstructed"
    /\ LET path == get_safe_output_path(out_dir, validated_chunks.metadata.filename)
       IN  /\ out_dir' = out_dir \cup {[path |-> path, content |-> recon_data]}
           /\ output_path' = path
    /\ dec_pc' = "saved"
    /\ UNCHANGED <<chunk_data_list, validated_chunks, recon_data, dec_error>>
    /\ DecFrame

\* stage 5: _verify_file_integrity, then the return of output_path
VerifyFileIntegrity ==
    /\ dec_pc = "saved"
    /\ LET error == _verify_file_integrity(ReadOutput(out_dir, output_path),
                                           validated_chunks.metadata)
       IN  IF error # NoError
           THEN Fail(error)
           ELSE /\ dec_pc' = "done"
                /\ UNCHANGED dec_error
    /\ UNCHANGED <<chunk_data_list, validated_chunks, recon_data, output_path, out_dir>>
    /\ DecFrame

\* ------------------------------------------------------- analyze_qr_images
Analyze ==
    /\ enc_pc = "done"
    /\ dec_pc = "idle"
    /\ ana_pc = "idle"
    /\ leg_pc = "idle"
    /\ analysis' = analyze_qr_images(image_paths)
    /\ ana_pc' = IF analysis'.raised THEN "failed" ELSE "done"
    /\ UNCHANGED <<encVars, image_paths, edits, dec_pc, chunk_data_list,
                   validated_chunks, recon_data, output_path, dec_error, out_dir,
                   legVars, sideVars>>

\* ------------------------------- legacy BinaryQRConverter.decode_qr_images
LegFrame ==
    UNCHANGED <<encVars, image_paths, edits, dec_pc, chunk_data_list,
                validated_chunks, recon_data, output_path, dec_error, out_dir,
                ana_pc, analysis, sideVars>>

\* the reading loop: the first image decode_qr_image gives None for ends
\* the decode with None
LegacyDecodeAll ==
    /\ enc_pc = "done"
    /\ dec_pc = "idle"
    /\ ana_pc = "idle"
    /\ leg_pc = "idle"
    /\ IF \E k \in 1..Len(image_paths) : ~legacy_decode_qr_image(image_paths[k]).ok
       THEN /\ leg_pc' = "returned"
            /\ leg_result' = LegacyResult("None", NoPath)
            /\ UNCHANGED leg_chunk_data_list
       ELSE /\ leg_pc' = "collected"
            /\ leg_chunk_data_list' =
                   [k \in 1..Len(image_paths) |-> legacy_decode_qr_image(image_paths[k]).chunk]
            /\ UNCHANGED leg_result
    /\ UNCHANGED leg_out_dir
    /\ LegFrame

\* the rest of the legacy decode_qr_images
LegacyAssemble ==
    /\ leg_pc = "collected"
    /\ LET r == legacy_assemble(leg_chunk_data_list, leg_out_dir)
       IN  /\ leg_result' = r.result
           /\ leg_out_dir' = r.dir
    /\ leg_pc' = "returned"
    /\ UNCHANGED leg_chunk_data_list
    /\ LegFrame

\* ------------------------------------------------------- specifications
Init == EncInit /\ DecInit

Next ==
    \/ PrepareFileInfo
    \/ ReadAndCompressFile
    \/ CalculateChunkInfo
    \/ GenerateQRCode
    \/ GenerateQRCodeFails
    \/ EncodeReturn
    \/ RemoveImage
    \/ DuplicateImage
    \/ SwapImages
    \/ DamageImage
    \/ ForeignImage
    \/ TamperImage
    \/ MalformImage
    \/ DecodeAllQRCodes
    \/ ValidateAndOrganizeChunks
    \/ ReconstructFileData
    \/ SaveReconstructedFile
    \/ VerifyFileIntegrity
    \/ Analyze
    \/ LegacyDecodeAll
    \/ LegacyAssemble

Spec == Init /\ [][Next]_vars

\* The chunk codec on its own: any payload, also one zlib never produces.
MaxPayloadLen == 3

CodecInit ==
    /\ file_data = <<>>
    /\ chunk_size \in 1..MaxChunkSize
    /\ cfg_route = [api |-> "QRConfig", preset |-> "none"]
    /\ cfg_chunk_size = chunk_size
    /\ cfg_error = "none"
    /\ cfg_error_correction = NotGiven
    /\ error_correction = ErrorCorrectionLevel.HIGH
    /\ enc_error = "none"
    /\ enc_pc = "compressed"
    /\ file_info = [name |-> FileName, hash |-> calculate_file_hash(file_data)]
    /\ compressed_data \in SeqsUpTo(Byte, MaxPayloadLen)
    /\ chunk_info = NoChunkInfo
    /\ chunk_index = 0
    /\ qr_image_paths = <<>>
    /\ DecInit

CodecNext ==
    \/ CalculateChunkInfo
    \/ GenerateQRCode
    \/ GenerateQRCodeFails
    \/ EncodeReturn

SpecCodec == CodecInit /\ [][CodecNext]_vars

\* Building the configuration first: any route, any requested chunk size.
ConfigInit ==
    /\ file_data \in SeqsUpTo(Byte, MaxFileLen)
    /\ cfg_route \in Routes
    /\ cfg_chunk_size \in (-1)..MaxChunkSize
    /\ cfg_error = "none"
    /\ cfg_error_correction \in
          IF cfg_route.api = "BinaryQRConverter"
          THEN {NotGiven} \cup (0..MaxErrorCorrection)
          ELSE {NotGiven}
    /\ error_correction = ErrorCorrectionLevel.HIGH
    /\ enc_error = "none"
    /\ chunk_size = 0
    /\ enc_pc = "config"
    /\ file_info = NoInfo
    /\ compressed_data = <<>>
    /\ chunk_info = NoChunkInfo
    /\ chunk_index = 0
    /\ qr_image_paths = <<>>
    /\ DecInit

\* the configuration is built; encode_file starts only if that raised nothing
Configure ==
    /\ enc_pc = "config"
    /\ LET built == Construct(cfg_route, cfg_chunk_size)
       IN  /\ chunk_size' = built.chunk_size
           /\ cfg_error' = built.error
           /\ error_correction' =
                  IF built.ok
                  THEN ConfigErrorCorrection(cfg_route, cfg_error_correction)
                  ELSE error_correction
           /\ enc_pc' = IF built.ok THEN "start" ELSE "rejected"
    /\ UNCHANGED <<cfg_route, cfg_chunk_size, cfg_error_correction, enc_error,
                   file_data, file_info,
                   compressed_data, chunk_info, chunk_index, qr_image_paths>>
    /\ UNCHANGED decVars

ConfigNext ==
    \/ Configure
    \/ PrepareFileInfo
    \/ ReadAndCompressFile
    \/ CalculateChunkInfo
    \/ GenerateQRCode
    \/ GenerateQRCodeFails
    \/ EncodeReturn

SpecConfig == ConfigInit /\ [][ConfigNext]_vars

\* ------------------------------------------------------- decode_command
\* decode_command(image_args, output_dir) without analyze_only, on a list of
\* images the caller made of an encoding: images left out, handed over twice,
\* damaged, or replaced by images of another file.
CommandInit ==
    /\ EncInit
    /\ DecIdle
    /\ NamingIdle
    /\ cmd_pc = "start"
    /\ cmd_error = NoError
    /\ RepeatIdle
    /\ QraroIdle
    /\ PathIdle

CommandFrame ==
    UNCHANGED <<encVars, image_paths, edits, dec_pc, chunk_data_list,
                validated_chunks, recon_data, output_path, dec_error, out_dir,
                legVars, namingVars, repeatVars, qraroVars, pathVars>>

\* get_image_paths: ValidationError when no image file is found
CommandGetImagePaths ==
    /\ enc_pc = "done"
    /\ cmd_pc = "start"
    /\ IF image_paths = <<>>
       THEN /\ cmd_pc' = "failed"
            /\ cmd_error' = Err("ValidationError", "image_args", NoIndex, 0, 0)
       ELSE /\ cmd_pc' = "paths"
            /\ UNCHANGED cmd_error
    /\ UNCHANGED <<ana_pc, analysis>>
    /\ CommandFrame

\* analysis = converter.analyze_qr_images(image_paths)
CommandAnalyze ==
    /\ cmd_pc = "paths"
    /\ analysis' = analyze_qr_images(image_paths)
    /\ ana_pc' = IF analysis'.raised THEN "failed" ELSE "done"
    /\ IF analysis'.raised
       THEN /\ cmd_pc' = "failed"
            /\ cmd_error' = Err("DecodingError", "QR image analysis", NoIndex, 0, 0)
       ELSE /\ cmd_pc' = "analysed"
            /\ UNCHANGED cmd_error
    /\ CommandFrame

\* _validate_analysis_results(analysis)
CommandValidate ==
    /\ cmd_pc = "analysed"
    /\ LET error == _validate_analysis_results(analysis)
       IN  IF error # NoError
           THEN /\ cmd_pc' = "failed"
                /\ cmd_error' = error
           ELSE /\ cmd_pc' = "checked"
                /\ UNCHANGED cmd_error
    /\ UNCHANGED <<ana_pc, analysis>>
    /\ CommandFrame

\* output_path = converter.decode_qr_images(image_paths, output_dir)
CommandDecode ==
    /\ cmd_pc = "checked"
    /\ DecodeAllQRCodesStage

CommandNext ==
    \/ PrepareFileInfo
    \/ ReadAndCompressFile
    \/ CalculateChunkInfo
    \/ GenerateQRCode
    \/ GenerateQRCodeFails
    \/ EncodeReturn
    \/ RemoveImage
    \/ DuplicateImage
    \/ DamageImage
    \/ ForeignImage
    \/ CommandGetImagePaths
    \/ CommandAnalyze
    \/ CommandValidate
    \/ CommandDecode
    \/ ValidateAndOrganizeChunks
    \/ ReconstructFileData
    \/ SaveReconstructedFile
    \/ VerifyFileIntegrity

SpecCommand == CommandInit /\ [][CommandNext]_vars

\* ------------------------------------------- decoding again and again
\* The images of one encoding decoded several times into one output
\* directory, which may hold files before the first decode.
MaxCalls == 2
MaxExistingFiles == 2

RepeatInit == Init

RepeatFrame ==
    UNCHANGED <<encVars, image_paths, edits, ana_pc, analysis, namingVars,
                commandVars, qraroVars, pathVars>>

\* a file that is in the output directory before the first decode
PlaceExistingFile ==
    /\ enc_pc = "done"
    /\ dec_pc = "idle" /\ leg_pc = "idle"
    /\ decode_calls = 0 /\ legacy_calls = 0
    /\ Cardinality(existing_files) < MaxExistingFiles
    /\ \E counter \in 0..(MaxExistingFiles - 1), content \in SeqsUpTo(Byte, MaxFileLen) :
          LET file == [path |-> [name |-> FileName, counter |-> counter],
                       content |-> content]
          IN  /\ \A f \in existing_files : f.path # file.path
              /\ existing_files' = existing_files \cup {file}
              /\ out_dir' = out_dir \cup {file}
              /\ leg_out_dir' = leg_out_dir \cup {file}
    /\ UNCHANGED <<dec_pc, chunk_data_list, validated_chunks, recon_data,
                   output_path, dec_error, leg_pc, leg_chunk_data_list, leg_result,
                   decode_calls, legacy_calls>>
    /\ RepeatFrame

\* decode_qr_images has returned or raised; the caller calls it again
DecodeAgain ==
    /\ dec_pc \in {"done", "failed"}
    /\ decode_calls < MaxCalls
    /\ decode_calls' = decode_calls + 1
    /\ dec_pc' = "idle"
    /\ chunk_data_list' = <<>>
    /\ validated_chunks' = NoValidated
    /\ recon_data' = <<>>
    /\ output_path' = NoPath
    /\ dec_error' = NoError
    /\ UNCHANGED <<out_dir, legVars, existing_files, legacy_calls>>
    /\ RepeatFrame

\* the legacy decode_qr_images has returned; the caller calls it again
LegacyDecodeAgain ==
    /\ leg_pc = "returned"
    /\ legacy_calls < MaxCalls
    /\ legacy_calls' = legacy_calls + 1
    /\ leg_pc' = "idle"
    /\ leg_chunk_data_list' = <<>>
    /\ leg_result' = NoResult
    /\ UNCHANGED <<leg_out_dir, dec_pc, chunk_data_list, validated_chunks,
                   recon_data, output_path, dec_error, out_dir, existing_files,
                   decode_calls>>
    /\ RepeatFrame

RepeatNext ==
    \/ PrepareFileInfo
    \/ ReadAndCompressFile
    \/ CalculateChunkInfo
    \/ GenerateQRCode
    \/ GenerateQRCodeFails
    \/ EncodeReturn
    \/ PlaceExistingFile
    \/ DecodeAllQRCodes
    \/ ValidateAndOrganizeChunks
    \/ ReconstructFileData
    \/ SaveReconstructedFile
    \/ VerifyFileIntegrity
    \/ DecodeAgain
    \/ LegacyDecodeAll
    \/ LegacyAssemble
    \/ LegacyDecodeAgain

SpecRepeat == RepeatInit /\ [][RepeatNext]_vars

\* ------------------------------------- the source file changing meanwhile
\* another process writes the source file while encode_file runs
ModifyFile ==
    /\ enc_pc \in {"start", "info", "compressed", "loop"}
    /\ file_data' \in SeqsUpTo(Byte, MaxFileLen) \ {file_data}
    /\ UNCHANGED <<cfg_route, cfg_chunk_size, cfg_error, cfg_error_correction,
                   error_correction, enc_error, chunk_size, enc_pc, file_info,
                   compressed_data, chunk_info, chunk_index, qr_image_paths>>
    /\ UNCHANGED decVars

RaceNext ==
    \/ PrepareFileInfo
    \/ ReadAndCompressFile
    \/ CalculateChunkInfo
    \/ GenerateQRCode
    \/ GenerateQRCodeFails
    \/ EncodeReturn
    \/ ModifyFile

SpecRace == Init /\ [][RaceNext]_vars

\* ------------------------------------------------- where a file is written
\* One file name followed from the chunk metadata to the artifact name and
\* to the path strict decode writes. The chunks come from encode_file or
\* from images made elsewhere, whose filename field is any text.
MaxNameLen == 4

NameChars == {"a", ".", "/"}

PathTexts == SeqsUpTo(NameChars, MaxNameLen) \ {<<>>}

\* Path(file_path).name
PathName(file_path) ==
    LET segments == Segments(file_path, <<>>)
    IN  IF segments = <<>> THEN <<>> ELSE segments[Len(segments)]

PathInit ==
    /\ EncIdle
    /\ DecIdle
    /\ NamingIdle
    /\ CommandIdle
    /\ RepeatIdle
    /\ QraroIdle
    /\ path_pc = "start"
    /\ path_file = <<>>
    /\ path_filename = <<>>
    /\ path_artifact = <<>>
    /\ path_written = <<>>

PathFrame ==
    UNCHANGED <<encVars, image_paths, edits, dec_pc, chunk_data_list,
                validated_chunks, recon_data, output_path, dec_error, out_dir,
                ana_pc, analysis, legVars, namingVars, commandVars, repeatVars,
                qraroVars>>

\* encode_file of a regular file: the chunks carry file_path.name, the
\* artifact carries the sanitized name
PathEncode ==
    /\ path_pc = "start"
    /\ \E file_path \in PathTexts :
        /\ PathName(file_path) \notin {<<>>, <<".", ".">>}
        /\ path_file' = file_path
        /\ path_filename' = PathName(file_path)
        /\ path_artifact' = generate_qr_filename(PathName(file_path), 0, 1)
    /\ path_pc' = "chunks"
    /\ UNCHANGED path_written
    /\ PathFrame

\* images made elsewhere: the filename field is any non-empty text
PathForeignChunks ==
    /\ path_pc = "start"
    /\ \E filename \in PathTexts : path_filename' = filename
    /\ path_pc' = "chunks"
    /\ UNCHANGED <<path_file, path_artifact, path_written>>
    /\ PathFrame

\* _save_reconstructed_file with the filename of the chunks
PathSave ==
    /\ path_pc = "chunks"
    /\ LET saved == save_reconstructed_path(path_filename)
       IN  /\ path_written' = saved.path
           /\ path_pc' = IF saved.ok THEN "saved" ELSE "failed"
    /\ UNCHANGED <<path_file, path_filename, path_artifact>>
    /\ PathFrame

PathNext ==
    \/ PathEncode
    \/ PathForeignChunks
    \/ PathSave

SpecPath == PathInit /\ [][PathNext]_vars

\* ------------------------------------------------ bin_to_qr / qr_to_bin
\* bin_to_qr called once or several times with one prefix, then qr_to_bin.
MaxDataLen == 2
MaxEncodings == 2

QraroInit ==
    /\ EncIdle
    /\ DecIdle
    /\ NamingIdle
    /\ CommandIdle
    /\ RepeatIdle
    /\ PathIdle
    /\ legacy_module \in {"qraro.py", "qrare.py"}
    /\ hex_chunk_size \in 1..MaxChunkSize
    /\ bin_data \in SeqsUpTo(Byte, MaxDataLen)
    /\ bin_pc = "start"
    /\ bin_chunks = <<>>
    /\ bin_i = 1
    /\ bin_calls = 0
    /\ prefix_files = <<>>
    /\ q2b_pc = "idle"
    /\ q2b_i = 1
    /\ q2b_chunks = <<>>
    /\ q2b_result = NoBinResult

QraroFrame ==
    UNCHANGED <<encVars, image_paths, edits, dec_pc, chunk_data_list,
                validated_chunks, recon_data, output_path, dec_error, out_dir,
                ana_pc, analysis, legVars, namingVars, commandVars, repeatVars,
                pathVars, legacy_module, hex_chunk_size>>

\* bin_to_qr up to its loop
BinToQrChunks ==
    /\ bin_pc = "start"
    /\ bin_chunks' = HexChunks(hex(compress_bytes(legacy_module, bin_data)), hex_chunk_size)
    /\ bin_i' = 1
    /\ bin_pc' = "loop"
    /\ UNCHANGED <<bin_data, bin_calls, prefix_files, q2b_pc, q2b_i, q2b_chunks,
                   q2b_result>>
    /\ QraroFrame

\* one iteration of the loop of bin_to_qr: <prefix>_<i>.png is written
BinToQrSave ==
    /\ bin_pc = "loop"
    /\ bin_i <= Len(bin_chunks)
    /\ prefix_files' =
          [k \in (DOMAIN prefix_files) \cup {bin_i} |->
              IF k = bin_i
              THEN QrText(bin_i, Len(bin_chunks), bin_chunks[bin_i])
              ELSE prefix_files[k]]
    /\ bin_i' = bin_i + 1
    /\ UNCHANGED <<bin_data, bin_pc, bin_chunks, bin_calls, q2b_pc, q2b_i,
                   q2b_chunks, q2b_result>>
    /\ QraroFrame

\* bin_to_qr returns
BinToQrReturn ==
    /\ bin_pc = "loop"
    /\ bin_i > Len(bin_chunks)
    /\ bin_pc' = "done"
    /\ bin_calls' = bin_calls + 1
    /\ UNCHANGED <<bin_data, bin_chunks, bin_i, prefix_files, q2b_pc, q2b_i,
                   q2b_chunks, q2b_result>>
    /\ QraroFrame

\* bin_to_qr is called again, with other data and the same prefix
BinToQrAgain ==
    /\ bin_pc = "done"
    /\ q2b_pc = "idle"
    /\ bin_calls < MaxEncodings
    /\ bin_data' \in SeqsUpTo(Byte, MaxDataLen)
    /\ bin_pc' = "start"
    /\ bin_chunks' = <<>>
    /\ bin_i' = 1
    /\ UNCHANGED <<bin_calls, prefix_files, q2b_pc, q2b_i, q2b_chunks, q2b_result>>
    /\ QraroFrame

\* one iteration of the loop of qr_to_bin
QrToBinRead ==
    /\ bin_pc = "done"
    /\ q2b_pc \in {"idle", "loop"}
    /\ IF q2b_i \notin DOMAIN prefix_files
       THEN /\ q2b_pc' = "after loop"
            /\ UNCHANGED <<q2b_i, q2b_chunks>>
       ELSE LET parsed == ParseQrText(prefix_files[q2b_i])
                chunks == [k \in (DOMAIN q2b_chunks) \cup {parsed.chunk_num} |->
                              IF k = parsed.chunk_num
                              THEN parsed.chunk_data
                              ELSE q2b_chunks[k]]
            IN  /\ q2b_chunks' = chunks
                /\ IF parsed.chunk_num = parsed.total_chunks
                   THEN /\ q2b_pc' = "after loop"
                        /\ UNCHANGED q2b_i
                   ELSE IF /\ legacy_module = "qrare.py"
                           /\ \/ q2b_i \notin DOMAIN chunks
                              \/ chunks[q2b_i] = <<>>
                   THEN /\ q2b_pc' = "exit"
                        /\ UNCHANGED q2b_i
                   ELSE /\ q2b_pc' = "loop"
                        /\ q2b_i' = q2b_i + 1
    /\ UNCHANGED <<bin_data, bin_pc, bin_chunks, bin_i, bin_calls, prefix_files,
                   q2b_result>>
    /\ QraroFrame

\* qr_to_bin after its loop
QrToBinReturn ==
    /\ q2b_pc = "after loop"
    /\ q2b_result' = qr_to_bin_return(legacy_module, q2b_chunks)
    /\ q2b_pc' = "returned"
    /\ UNCHANGED <<bin_data, bin_pc, bin_chunks, bin_i, bin_calls, prefix_files,
                   q2b_i, q2b_chunks>>
    /\ QraroFrame

QraroNext ==
    \/ BinToQrChunks
    \/ BinToQrSave
    \/ BinToQrReturn
    \/ BinToQrAgain
    \/ QrToBinRead
    \/ QrToBinReturn

SpecQraro == QraroInit /\ [][QraroNext]_vars

\* ------------------------------------------------------ artifact naming
\* The names of the artifacts of one encoding, written chunk after chunk by
\* either encoder, and the list get_image_paths makes of the directory.
MaxTotalChunks == 10

OriginalNames == {<<"a", ".", "b", "i", "n">>, <<"a", ":", "b">>}

NamingInit ==
    /\ EncIdle
    /\ DecIdle
    /\ name_generator \in {"generate_qr_filename", "legacy encode_file"}
    /\ name_original \in OriginalNames
    /\ name_total_chunks \in 1..MaxTotalChunks
    /\ name_list = <<>>
    /\ sorted_paths = <<>>
    /\ CommandIdle
    /\ RepeatIdle
    /\ QraroIdle
    /\ PathIdle

\* one iteration of the encoder's loop: the artifact of the next chunk is named
GenerateName ==
    /\ Len(name_list) < name_total_chunks
    /\ name_list' = Append(name_list,
                           ArtifactName(name_generator, name_original,
                                        Len(name_list), name_total_chunks))
    /\ UNCHANGED <<name_generator, name_original, name_total_chunks, sorted_paths>>
    /\ UNCHANGED <<encVars, image_paths, edits, dec_pc, chunk_data_list,
                   validated_chunks, recon_data, output_path, dec_error, out_dir,
                   ana_pc, analysis, legVars, commandVars, repeatVars, qraroVars,
                   pathVars>>

\* get_image_paths on the directory holding the artifacts
GetImagePaths ==
    /\ Len(name_list) = name_total_chunks
    /\ sorted_paths = <<>>
    /\ sorted_paths' = SortedNames({name_list[i] : i \in 1..Len(name_list)})
    /\ UNCHANGED <<name_generator, name_original, name_total_chunks, name_list>>
    /\ UNCHANGED <<encVars, image_paths, edits, dec_pc, chunk_data_list,
                   validated_chunks, recon_data, output_path, dec_error, out_dir,
                   ana_pc, analysis, legVars, commandVars, repeatVars, qraroVars,
                   pathVars>>

NamingNext ==
    \/ GenerateName
    \/ GetImagePaths

SpecNaming == NamingInit /\ [][NamingNext]_vars

\* =============================================================== claims
Count(s, x) == Cardinality({i \in DOMAIN s : s[i] = x})

\* t is s in some order
IsPerm(s, t) ==
    /\ Len(s) = Len(t)
    /\ \A i \in DOMAIN s : Count(s, s[i]) = Count(t, s[i])

Payload(chunk) == b64decode(chunk.data).data

\* the transformed stream a list of chunks stands for
TransformedStream(chunks) == Concat([i \in 1..Len(chunks) |-> Payload(chunks[i])])

CeilDiv(n, d) == CHOOSE t \in 0..n : t * d >= n /\ (t - 1) * d < n

\* C1: round trip.  Strict decode of the complete, unmodified set of images
\* of one encode_file call (in any order) never fails, and when it returns
\* the file it wrote holds exactly the bytes of the source file and has the
\* hash computed at encode time.
C1_RoundTrip ==
    (enc_pc = "done" /\ IsPerm(image_paths, qr_image_paths)) =>
        /\ dec_pc # "failed"
        /\ dec_pc = "done" =>
              /\ ReadOutput(out_dir, output_path) = file_data
              /\ calculate_file_hash(ReadOutput(out_dir, output_path)) = file_info.hash

C1_Witness ==
    /\ dec_pc = "done"
    /\ IsPerm(image_paths, qr_image_paths)
    /\ image_paths # qr_image_paths
    /\ file_data # <<>>
    /\ ReadOutput(out_dir, output_path) = file_data

C3_Slicing ==
    LET n == Len(compressed_data)
        cs == chunk_size
        total == chunk_info.total_chunks
    IN  /\ \A k \in 1..Len(qr_image_paths) :
              LET payload == Payload(qr_image_paths[k].rec)
                  lo == (k - 1) * cs
                  hi == Min(k * cs, n)
              IN  /\ payload = [j \in 1..(hi - lo) |-> compressed_data[lo + j]]
                  /\ k < total => Len(payload) = cs
                  /\ k = total => (1 <= Len(payload) /\ Len(payload) <= cs)
        /\ enc_pc = "done" =>
              TransformedStream([k \in 1..Len(qr_image_paths) |->
                                    qr_image_paths[k].rec]) = compressed_data

C3_Witness ==
    /\ enc_pc = "done"
    /\ Len(qr_image_paths) >= 2
    /\ Len(compressed_data) % chunk_size # 0

\* C4: every chunk of one encode_file call carries the same total_chunks,
\* filename and file_hash, has 0 <= chunk_index < total_chunks, and a
\* finished call has emitted each index 0..total_chunks-1 exactly once.
C4_ChunkMetadata ==
    /\ \A k \in 1..Len(qr_image_paths) :
          LET rec == qr_image_paths[k].rec
          IN  /\ rec.total_chunks = chunk_info.total_chunks
              /\ rec.filename = file_info.name
              /\ rec.file_hash = file_info.hash
              /\ 0 <= rec.chunk_index /\ rec.chunk_index < rec.total_chunks
              /\ \A m \in 1..Len(qr_image_paths) :
                    (m # k) => qr_image_paths[m].rec.chunk_index # rec.chunk_index
    /\ enc_pc = "done" =>
          \A idx \in 0..(chunk_info.total_chunks - 1) :
              Cardinality({k \in 1..Len(qr_image_paths) :
                              qr_image_paths[k].rec.chunk_index = idx}) = 1

C4_Witness ==
    /\ enc_pc = "done"
    /\ Len(qr_image_paths) >= 2

\* the lists the sequence s can be reordered to
Reorderings(s) ==
    {[i \in 1..Len(s) |-> s[f[i]]] : f \in Permutations(1..Len(s))}

\* C5: order independence.  For every chunk list the strict validator has
\* just accepted, it accepts every reordering of that list and returns the
\* same transformed byte stream for it.
C5_OrderIndependence ==
    dec_pc = "validated" =>
        LET stream == TransformedStream(validated_chunks.chunks)
        IN  \A p \in Reorderings(chunk_data_list) :
                LET r == _validate_and_organize_chunks(p)
                IN  r.ok /\ TransformedStream(r.chunks) = stream

C5_Witness ==
    /\ dec_pc = "validated"
    /\ Len(chunk_data_list) >= 3
    /\ chunk_data_list # validated_chunks.chunks

\* C6: strict validation succeeds only for exactly total chunks that agree
\* on (total_chunks, filename, file_hash) and whose indices are 0..total-1,
\* each once; the returned list has the chunk with index i at position i,
\* and the stream that is decompressed is the concatenation of the payloads
\* in that order.
C6_StrictValidation ==
    validated_chunks # NoValidated =>
        LET meta == validated_chunks.metadata
            out == validated_chunks.chunks
            total == meta.total_chunks
        IN  /\ Len(chunk_data_list) = total
            /\ \A i \in 1..Len(chunk_data_list) :
                  /\ chunk_data_list[i].total_chunks = total
                  /\ chunk_data_list[i].filename = meta.filename
                  /\ chunk_data_list[i].file_hash = meta.file_hash
            /\ \A idx \in 0..(total - 1) :
                  Cardinality({i \in 1..Len(chunk_data_list) :
                                  chunk_data_list[i].chunk_index = idx}) = 1
            /\ IsPerm(out, chunk_data_list)
            /\ \A i \in 1..Len(out) : out[i].chunk_index = i - 1
            /\ dec_pc \in {"reconstructed", "saved", "done"} =>
                  decompress_data(TransformedStream(out)) = [ok |-> TRUE, data |-> recon_data]

C6_Witness ==
    /\ dec_pc = "reconstructed"
    /\ Len(validated_chunks.chunks) >= 2
    /\ chunk_data_list[1].chunk_index # 0

\* image_paths is the complete set of images without the one of chunk r - 1
OneRemoved(r) ==
    /\ enc_pc = "done"
    /\ IsPerm(image_paths, RemoveAt(qr_image_paths, r))

\* C7: strict decode of a complete set with any single chunk removed fails,
\* and the failure names exactly the index of the removed chunk.  Stated for
\* sets of two or more chunks, where an image is left for the validator to
\* look at; a one-chunk set with its chunk removed is the empty list, which
\* decode_qr_images refuses before any chunk is read.
C7_StrictNamesMissing ==
    \A r \in 1..Len(qr_image_paths) :
        (Len(qr_image_paths) >= 2 /\ OneRemoved(r) /\ dec_pc \in {"done", "failed"}) =>
            /\ dec_pc = "failed"
            /\ dec_error.index = r - 1

\* what the analysis report says is missing for a file name
MissingChunks(info) ==
    (0..(info.total_chunks - 1)) \ {info.found_chunks[i] : i \in 1..Len(info.found_chunks)}

AnalysisNamesMissing(r) ==
    /\ FileName \in DOMAIN analysis.chunk_info
    /\ ~analysis.chunk_info[FileName].is_complete
    /\ MissingChunks(analysis.chunk_info[FileName]) = {r - 1}

\* C8 as claimed: for a complete set with any single chunk removed, analysis
\* reports is_complete = false for the file name and the missing set is the
\* removed index.
C8_AnalysisMissingAny ==
    \A r \in 1..Len(qr_image_paths) :
        (OneRemoved(r) /\ ana_pc = "done") => AnalysisNamesMissing(r)

\* C8 as amended: the same for a set of at least two chunks, so that at
\* least one chunk of the file is left to be analysed.
C8_AnalysisMissing ==
    \A r \in 1..Len(qr_image_paths) :
        (OneRemoved(r) /\ ana_pc = "done" /\ Len(qr_image_paths) >= 2) =>
            AnalysisNamesMissing(r)

C8_Witness ==
    /\ ana_pc = "done"
    /\ Len(qr_image_paths) >= 3
    /\ OneRemoved(2)
    /\ AnalysisNamesMissing(2)

\* C9: the found indices analysis reports per file name are sorted ascending
\* and hold each index at most once.
C9_FoundSortedDedup ==
    ana_pc = "done" =>
        \A f \in DOMAIN analysis.chunk_info :
            LET found == analysis.chunk_info[f].found_chunks
            IN  \A i \in 1..(Len(found) - 1) : found[i] < found[i + 1]

\* an image no record can be read from
CannotBeRead(image) ==
    \/ image.scan # "ok"
    \/ image.json # "ok"
    \/ \E k \in 1..Len(RequiredFields) : RequiredFields[k] \notin DOMAIN image.rec
    \/ image.rec.chunk_index = NonInteger
    \/ image.rec.total_chunks = NonInteger
    \/ ~(0 <= image.rec.chunk_index /\ image.rec.chunk_index < image.rec.total_chunks)

\* C10: analysis returns a report for every list of images without raising;
\* the images that cannot be read are counted and recorded as failed, and
\* every other image is analysed.
C10_AnalysisNeverRaises ==
    /\ ana_pc # "failed"
    /\ ana_pc = "done" =>
          LET unreadable == {k \in 1..Len(image_paths) : CannotBeRead(image_paths[k])}
              readable == (1..Len(image_paths)) \ unreadable
          IN  /\ ~analysis.raised
              /\ analysis.total_images = Len(image_paths)
              /\ analysis.failed_qrs = Cardinality(unreadable)
              /\ {analysis.errors[i] : i \in 1..Len(analysis.errors)} = unreadable
              /\ analysis.readable_qrs = Cardinality(readable)
              /\ \A k \in readable :
                    LET rec == image_paths[k].rec
                    IN  /\ rec.filename \in DOMAIN analysis.chunk_info
                        /\ rec.filename \in analysis.unique_files
                        /\ Count(analysis.chunk_info[rec.filename].found_chunks,
                                 rec.chunk_index)
                             = Cardinality({m \in readable :
                                   /\ image_paths[m].rec.filename = rec.filename
                                   /\ image_paths[m].rec.chunk_index = rec.chunk_index})

C10_Witness ==
    /\ ana_pc = "done"
    /\ analysis.failed_qrs >= 1
    /\ analysis.readable_qrs >= 1
    /\ CannotBeRead(image_paths[1])
    /\ Cardinality(analysis.unique_files) = 2

\* every image handed to the decoder gives a record
AllReadable ==
    \A k \in 1..Len(image_paths) : _decode_single_qr_image(image_paths[k]).ok

\* the images hold chunks of two logical files with different file_hash
MixedHashes ==
    \E i, j \in 1..Len(image_paths) :
        image_paths[i].rec.file_hash # image_paths[j].rec.file_hash

\* the issues of a ChunkError that say which field of which chunk differs
MismatchIssues ==
    {"inconsistent total_chunks", "inconsistent filename", "inconsistent file_hash"}

\* C11: cross-file rejection.  Strict decode of a collection holding chunks
\* of two logical files with different file_hash writes no file and fails
\* with a ChunkError that names the mismatch and the chunk that differs.
C11_CrossFileRejected ==
    (AllReadable /\ MixedHashes /\ dec_pc \in {"done", "failed"}) =>
        /\ dec_pc = "failed"
        /\ out_dir = {}
        /\ dec_error.type = "ChunkError"
        /\ dec_error.issue \in MismatchIssues
        /\ dec_error.index # NoIndex

\* C12: tamper detection.  Strict decode returns a path only if the digest
\* of the decompressed bytes equals the file_hash the chunks carry; a decode
\* whose chunks decompress to bytes with another digest fails with
\* IntegrityError, not with the error of an assembly failure, and returns
\* no path.
C12_TamperDetected ==
    /\ dec_pc = "done" =>
          /\ calculate_file_hash(recon_data) = validated_chunks.metadata.file_hash
          /\ \A k \in 1..Len(chunk_data_list) :
                chunk_data_list[k].file_hash = calculate_file_hash(recon_data)
    /\ (/\ dec_pc \in {"done", "failed"}
        /\ output_path # NoPath
        /\ calculate_file_hash(recon_data) # validated_chunks.metadata.file_hash) =>
          /\ dec_pc = "failed"
          /\ dec_error.type = "IntegrityError"
          /\ dec_error.type \notin {"ChunkError", "DecodingError", "ValidationError"}

C12_Witness ==
    /\ dec_pc = "failed"
    /\ dec_error.type = "IntegrityError"
    /\ \A k \in 1..Len(image_paths) : image_paths[k].rec.file_hash = file_info.hash
    /\ image_paths # qr_image_paths
    /\ recon_data # file_data

\* C13: after a strict decode that failed, at whatever stage, no file written
\* by that decode is left in the output directory (the directory was empty
\* before the decode, so every file in it was written by the decode).
C13_NoFileAfterFailure ==
    dec_pc = "failed" => out_dir = {}

\* the stage outputs of decode_qr_images
stageVars == <<dec_pc, chunk_data_list, validated_chunks, recon_data,
               output_path, out_dir, dec_error>>

\* C14: a strict decode goes through collecting, validating, decompressing
\* (then saving) and verifying in this order without skipping a stage; an
\* error ends the decode, after which no stage runs: a stage has an output
\* only if the stage before it has one.
C14_StageOrder ==
    [][/\ dec_pc' # dec_pc =>
            \/ dec_pc' = NextStage(dec_pc) /\ dec_pc \notin {"done", "failed"}
            \/ dec_pc' = "failed" /\ dec_pc \notin {"done", "failed"}
       /\ dec_error' # NoError => dec_pc' = "failed"
       /\ dec_pc \in {"done", "failed"} => UNCHANGED stageVars
       /\ validated_chunks' # NoValidated => chunk_data_list' # <<>>
       /\ output_path' # NoPath => validated_chunks' # NoValidated
       /\ out_dir' # {} => output_path' # NoPath
       /\ dec_pc' = "done" => out_dir' # {}]_vars

C14_Witness ==
    /\ dec_pc = "failed"
    /\ validated_chunks # NoValidated
    /\ dec_error.type = "DecodingError"
    /\ output_path = NoPath

\* the error types strict decode reports for an image that cannot be scanned
\* and for an image whose text is not a record
UnreadableErrorTypes ==
    {_decode_all_qr_codes(<<[qr_image_paths[k] EXCEPT !.scan = "noqr"]>>).error.type :
        k \in 1..Len(qr_image_paths)}

MalformedErrorTypes ==
    {_decode_all_qr_codes(<<[qr_image_paths[k] EXCEPT !.json = "bad"]>>).error.type :
        k \in 1..Len(qr_image_paths)}

\* the stage a failed strict decode failed in
ReadFailed == dec_pc = "failed" /\ image_paths # <<>> /\ chunk_data_list = <<>>

ValidationFailed ==
    dec_pc = "failed" /\ chunk_data_list # <<>> /\ validated_chunks = NoValidated

DecompressionFailed ==
    dec_pc = "failed" /\ validated_chunks # NoValidated /\ output_path = NoPath

IntegrityFailed == dec_pc = "failed" /\ output_path # NoPath

\* C15: strict decode reports each failure class with an error type of its
\* own: an unreadable artifact, a malformed record, a chunk-consistency
\* violation, a decompression failure and a hash mismatch never share a
\* type; a decompression failure in particular has neither the type of a
\* chunk-assembly error nor that of a read or parse error.
C15_DistinctErrorKinds ==
    /\ DecompressionFailed =>
          dec_error.type \notin {"ChunkError", "IntegrityError"}
                                  \cup UnreadableErrorTypes \cup MalformedErrorTypes
    /\ ValidationFailed =>
          dec_error.type \notin {"IntegrityError"}
                                  \cup UnreadableErrorTypes \cup MalformedErrorTypes
    /\ IntegrityFailed =>
          dec_error.type \notin {"ChunkError"}
                                  \cup UnreadableErrorTypes \cup MalformedErrorTypes
    /\ (ReadFailed /\ \A k \in 1..Len(image_paths) : image_paths[k].json = "ok") =>
          dec_error.type \notin MalformedErrorTypes

\* the positions of the chunks whose (total_chunks, filename, file_hash)
\* differs from that of the first chunk of the list
Offending(list) ==
    {k \in 1..Len(list) :
        \/ list[k].total_chunks # list[1].total_chunks
        \/ list[k].filename # list[1].filename
        \/ list[k].file_hash # list[1].file_hash}

\* C16: the strict validator reports the earliest violated step of: list not
\* empty; every chunk agrees with the first on (total_chunks, filename,
\* file_hash); chunk count equals total_chunks; the indices are 0..total-1.
\* So a list with a chunk that disagrees fails with the mismatch error
\* naming such a chunk, also when the chunk count is wrong as well.
C16_CheckOrder ==
    ValidationFailed =>
        IF Offending(chunk_data_list) # {}
        THEN /\ dec_error.issue \in MismatchIssues
             /\ dec_error.index \in {chunk_data_list[k].chunk_index :
                                        k \in Offending(chunk_data_list)}
        ELSE IF Len(chunk_data_list) # chunk_data_list[1].total_chunks
        THEN dec_error.issue = "chunk count mismatch"
        ELSE dec_error.issue \in {"duplicate chunk index", "missing chunk index"}

\* the chunk indices a list holds more than once
DuplicatedIndices(list) ==
    {list[k].chunk_index : k \in {n \in 1..Len(list) :
        \E m \in 1..Len(list) : m # n /\ list[m].chunk_index = list[n].chunk_index}}

\* C17: strict validation of a chunk list that holds a chunk_index twice
\* fails with an error naming a duplicated index, also when the duplicate
\* makes the list longer than total_chunks.  Stated for lists whose chunks
\* agree on (total_chunks, filename, file_hash), so that the duplicate is
\* the only thing wrong with the metadata.
C17_DuplicateNamed ==
    (/\ dec_pc \in {"done", "failed"}
     /\ chunk_data_list # <<>>
     /\ Offending(chunk_data_list) = {}
     /\ DuplicatedIndices(chunk_data_list) # {}) =>
        /\ dec_pc = "failed"
        /\ dec_error.type = "ChunkError"
        /\ dec_error.issue = "duplicate chunk index"
        /\ dec_error.index \in DuplicatedIndices(chunk_data_list)

\* a record that is a well-formed chunk
WellFormed(rec) ==
    /\ \A k \in 1..Len(RequiredFields) : RequiredFields[k] \in DOMAIN rec
    /\ "chunk_index_type" \notin DOMAIN rec
    /\ rec.chunk_index # NonInteger
    /\ rec.total_chunks # NonInteger
    /\ 0 <= rec.chunk_index /\ rec.chunk_index < rec.total_chunks
\* C18: parsing a scanned record fails whenever a required field is absent
\* or chunk_index / total_chunks are not integers with
\* 0 <= chunk_index < total_chunks, so the chunk list a strict decode hands
\* to its assembly checks holds well-formed records only.
C18_MalformedNeverAssembled ==
    /\ \A k \in 1..Len(chunk_data_list) : WellFormed(chunk_data_list[k])
    /\ \A k \in 1..Len(leg_chunk_data_list) : WellFormed(leg_chunk_data_list[k])
    /\ (/\ dec_pc # "idle"
        /\ \E k \in 1..Len(image_paths) : ~WellFormed(image_paths[k].rec)) =>
          /\ dec_pc = "failed"
          /\ chunk_data_list = <<>>
\* C19: a chunk size that is not positive is rejected with a validation
\* error on every route, before the file is read or an image written; it is
\* never replaced by another value and never reaches _calculate_chunk_info.
C19_ChunkSizeRejected ==
    cfg_chunk_size <= 0 =>
        /\ enc_pc \in {"config", "rejected"}
        /\ enc_pc = "rejected" => cfg_error \in {"ValueError", "ValidationError"}
        /\ chunk_size = 0
        /\ compressed_data = <<>>
        /\ chunk_info = NoChunkInfo
        /\ qr_image_paths = <<>>
\* the images a record can be read from, in the order given
ReadableImages == SelectSeq(image_paths, LAMBDA im : ~CannotBeRead(im))

C21_NamesSortInIndexOrder ==
    sorted_paths # <<>> =>
        /\ \A i, j \in 1..Len(name_list) : i # j => name_list[i] # name_list[j]
        /\ sorted_paths = name_list

\* the same for the names generate_qr_filename gives
NamesSortInIndexOrder_padded ==
    (sorted_paths # <<>> /\ name_generator = "generate_qr_filename") =>
        /\ \A i, j \in 1..Len(name_list) : i # j => name_list[i] # name_list[j]
        /\ sorted_paths = name_list

\* C22: decode_command runs the analysis before the strict decode, starts
\* the strict decode only when the analysis read at least one record and
\* reports every file name complete, and otherwise raises ValidationError and
\* leaves the output directory without a file.
C22_AnalysisGatesDecode ==
    /\ dec_pc # "idle" =>
          /\ ana_pc = "done"
          /\ cmd_pc = "checked"
          /\ analysis = analyze_qr_images(image_paths)
          /\ analysis.readable_qrs >= 1
          /\ \A f \in DOMAIN analysis.chunk_info : analysis.chunk_info[f].is_complete
    /\ (/\ cmd_pc \in {"failed", "checked"}
        /\ \/ image_paths = <<>>
           \/ analyze_qr_images(image_paths).readable_qrs = 0
           \/ \E f \in DOMAIN analyze_qr_images(image_paths).chunk_info :
                 ~analyze_qr_images(image_paths).chunk_info[f].is_complete) =>
          /\ cmd_pc = "failed"
          /\ cmd_error.type = "ValidationError"
          /\ dec_pc = "idle"
          /\ out_dir = {}

\* the analysis found an incomplete file and the command raised; and a
\* command whose analysis passed went on to decode
C22_Witness ==
    /\ cmd_pc = "failed"
    /\ ana_pc = "done"
    /\ analysis.readable_qrs >= 1
    /\ cmd_error.issue = "qr_chunks"

C22_WitnessDecoded ==
    /\ cmd_pc = "checked"
    /\ dec_pc = "done"

\* the files of a directory that were not there before the first decode
NewFiles(dir) == {f \in dir : \A g \in existing_files : g.path # f.path}

\* every file that was there before the first decode is there unchanged, and
\* a number of decodes that returned a path have left that many new files,
\* each holding the source bytes
NeverOverwrites(dir, returned) ==
    /\ \A f \in existing_files : f \in dir
    /\ Cardinality(NewFiles(dir)) = returned
    /\ \A f \in NewFiles(dir) : f.content = file_data

\* C23: a decode never overwrites or modifies a file that was in the output
\* directory before, and k decodes of the same images in a row leave k
\* distinct new files with identical content.
C23_NeverOverwrites ==
    /\ (dec_pc \in {"idle", "done"}) =>
          NeverOverwrites(out_dir, decode_calls + (IF dec_pc = "done" THEN 1 ELSE 0))
    /\ (leg_pc \in {"idle", "returned"}) =>
          NeverOverwrites(leg_out_dir, legacy_calls + (IF leg_pc = "returned" THEN 1 ELSE 0))

\* the same for QRDecoder.decode_qr_images alone
NeverOverwrites_strict ==
    (dec_pc \in {"idle", "done"}) =>
        NeverOverwrites(out_dir, decode_calls + (IF dec_pc = "done" THEN 1 ELSE 0))

NeverOverwrites_strict_Witness ==
    /\ dec_pc = "done"
    /\ decode_calls = MaxCalls
    /\ existing_files # {}

\* C24: BinaryQRConverter built with error_correction set to a valid qrcode
\* constant holds a configuration whose error-correction level is that
\* constant, and the level is one QRConfig's validation accepts.
C24_ErrorCorrectionKept ==
    (/\ enc_pc # "config"
     /\ cfg_error = "none"
     /\ cfg_route.api = "BinaryQRConverter"
     /\ _validate_error_correction(cfg_error_correction)) =>
        /\ error_correction = cfg_error_correction
        /\ _validate_error_correction(error_correction)

\* C25: the images written by bin_to_qr carry the numbers 1..total;
\* qr_to_bin stops at the image whose number is the total, and what it gives
\* back is the data of the last bin_to_qr, whatever images an earlier
\* bin_to_qr with the same prefix left behind.
C25_LegacyRoundTrip ==
    /\ (bin_pc = "done") =>
          \A k \in 1..Len(bin_chunks) :
              /\ k \in DOMAIN prefix_files
              /\ ParseQrText(prefix_files[k]).chunk_num = k
              /\ ParseQrText(prefix_files[k]).total_chunks = Len(bin_chunks)
    /\ q2b_pc # "exit"
    /\ (q2b_pc \in {"after loop", "returned"} /\ Len(bin_chunks) >= 1) =>
          q2b_i = Len(bin_chunks)
    /\ (q2b_pc = "returned") => q2b_result = BinResult("bytes", bin_data)

\* the same for data that bin_to_qr cuts into at least one chunk
LegacyRoundTrip_nonempty ==
    (Len(bin_chunks) >= 1) => C25_LegacyRoundTrip

LegacyRoundTrip_nonempty_Witness ==
    /\ q2b_pc = "returned"
    /\ bin_calls = 2
    /\ Len(bin_chunks) >= 1
    /\ Cardinality(DOMAIN prefix_files) > Len(bin_chunks)

\* the image encode_file writes for chunk idx
ArtifactOf(idx) ==
    _save_qr_image(_create_chunk_metadata(
        _extract_chunk(compressed_data, idx, chunk_info), idx, chunk_info))

C27_HashOfEncodedBytes ==
    (enc_pc = "done") =>
        \A i \in 1..Len(qr_image_paths) :
            qr_image_paths[i].rec.file_hash
                = calculate_file_hash(decompress_data(compressed_data).data)

\* the records analysis read under a file name
FoundUnder(filename) ==
    {image_paths[k].rec : k \in {m \in 1..Len(image_paths) :
        ~CannotBeRead(image_paths[m]) /\ image_paths[m].rec.filename = filename}}

\* C28: analysis reports a file name complete only if all chunks found
\* under that name agree on total_chunks and file_hash.
C28_CompleteOnlyIfAgree ==
    (ana_pc = "done") =>
        \A f \in DOMAIN analysis.chunk_info :
            analysis.chunk_info[f].is_complete =>
                \A c, d \in FoundUnder(f) :
                    /\ c.total_chunks = d.total_chunks
                    /\ c.file_hash = d.file_hash

\* C29: when the strict validator rejects a chunk collection, it rejects
\* every ordering of the collection with the same failure: the same check
\* and the same chunk index named.
C29_FailureOrderIndependent ==
    ValidationFailed =>
        \A p \in Reorderings(chunk_data_list) :
            LET r == _validate_and_organize_chunks(p)
            IN  /\ ~r.ok
                /\ r.error.issue = dec_error.issue
                /\ r.error.index = dec_error.index

\* C30: strict decode writes the reconstructed file only inside the given
\* output directory, whatever filename the chunks carry, names with path
\* separators or ".." segments included.
C30_WritesInsideOutputDir ==
    path_pc = "saved" => Inside(OutputDir, path_written)

\* with chunks that encode_file made, the file is written inside the
\* output directory, the artifact name has no separator, and the filename
\* field is the name of the file as it was
WritesInsideOutputDir_encoded ==
    (path_pc = "saved" /\ path_file # <<>>) =>
        /\ Inside(OutputDir, path_written)
        /\ path_filename = PathName(path_file)
        /\ \A i \in 1..Len(path_artifact) : path_artifact[i] # "/"

WritesInsideOutputDir_encoded_Witness ==
    /\ path_pc = "saved"
    /\ path_file # <<>>
    /\ path_filename # _sanitize_filename(path_filename)

====
